---- MODULE Spec2Model ----
(***************************************************************************)
(* Model of the AWS SSO login extension (src/extension.js and its later    *)
(* revision src/unnamed/part_000).                                         *)
(*                                                                         *)
(* Texts (the credentials file, the config file) are sequences of          *)
(* characters.  A character is a one-character string; a few fixed words of *)
(* the file formats ("profile", "aws_access_key_id", ...) are written as    *)
(* one atom each: they contain no whitespace, no bracket, no "=" and no     *)
(* "#", and the code never looks inside them.                               *)
(***************************************************************************)
EXTENDS Integers, Sequences, FiniteSets, TLC

VARIABLES
    credExists,   \* fs.existsSync(credentialsPath)
    credContent,  \* the credentials file's content (characters)
    wCount,       \* number of updateAwsCredentialsFile calls so far
    wSame,        \* length of the current run of calls with equal arguments
    wProfile,     \* profileName of the last call
    wCreds,       \* credentials of the last call
    wBeforeExists,\* credExists before the last call
    wBefore,      \* credContent before the last call
    wWritten,     \* the calls so far: name -> credentials of its last call,
                  \* in the order of each name's first call
    cfgExists,    \* fs.existsSync(configPath)
    cfgContent,   \* the config file's content (characters)
    cfgReadable,  \* fs.readFileSync(configPath) returns (it throws otherwise)
    cfgSections,  \* const sections of parseAwsConfig after its line loop
    settings,     \* the awsSsoLogin.profiles setting (a list of records)
    discPc,       \* getAwsSsoProfiles: "start", "parsed" (after the await),
                  \* "merged" (returned), "thrown" (rejected)
    configProfiles, \* what parseAwsConfig returned (name -> profile, in order)
    profiles,     \* what getAwsSsoProfiles returned (a list)
    lgPc,         \* startSsoLogin: "idle", "probing" (in findAwsCliPath),
                  \* "found" (findAwsCliPath returned), "running" (the child
                  \* was spawned), "returned"; "done" when the login
                  \* command that called it has finished
    lgName,       \* profile.name of the call
    installed,    \* the candidates whose version probe succeeds on this machine
    probed,       \* the candidates probed so far, in order (indices)
    awsPath,      \* what findAwsCliPath returned: an index, 0 for null
    childSpawned, \* number of `sso login` children spawned
    promise,      \* the promise of the progress task: "pending", TRUE, FALSE
    lgResult,     \* what startSsoLogin returned: "none", TRUE, FALSE
    stderr,       \* let stderr: the error-stream text received so far
    verificationCodeFound, \* let verificationCodeFound
    log,          \* what the handlers of the call did, one record per run
    envSet,       \* the environment holds a PATH: process.env at first,
                  \* then what the last buildEnvWithPaths returned
    envPath,      \* its value (characters; ":" separates the entries)
    envInput,     \* envSet and envPath at the start (process.env)
    envBefore,    \* envSet and envPath before the last buildEnvWithPaths
    envCount,     \* number of buildEnvWithPaths applications so far
    cmdPc,        \* the login command: "idle", then the step it is about to
                  \* take, "done" when it has returned
    cmdTrace,     \* the steps the login command has taken, in order
    cmdShown,     \* the messages the login command has shown, in order
    awsDirExists, \* fs.existsSync(awsDir)
    fmtDiff,      \* formatExpirationTime: date.getTime() - now.getTime()
    fmtOut        \* what formatExpirationTime returned (characters)

writerVars == <<credExists, credContent, wCount, wSame, wProfile, wCreds,
                wBeforeExists, wBefore, wWritten>>

discVars == <<cfgExists, cfgContent, cfgReadable, cfgSections, settings,
              discPc, configProfiles, profiles>>

loginVars == <<lgPc, lgName, installed, probed, awsPath, childSpawned, promise,
               lgResult, stderr, verificationCodeFound, log>>

envVars == <<envSet, envPath, envInput, envBefore, envCount>>

cmdVars == <<cmdPc, cmdTrace, cmdShown, awsDirExists>>

fmtVars == <<fmtDiff, fmtOut>>

vars == <<writerVars, discVars, loginVars, envVars, cmdVars, fmtVars>>

----------------------------------------------------------------------------
(* Bounds of the model                                                     *)

\* chunks joined into an initial credentials file
MaxChunks == 3
\* calls of updateAwsCredentialsFile in one behaviour
MaxWrites == 3
\* sections (a header line and the lines under it) of a config file
MaxSections == 2
\* entries of the awsSsoLogin.profiles setting
MaxSettings == 2
\* data events of the login child's error stream
MaxData == 2
\* entries of the PATH of process.env
MaxPathEntries == 3
\* applications of buildEnvWithPaths, each to what the last one returned
MaxBuilds == 2

----------------------------------------------------------------------------
(* Strings                                                                 *)

NL == "\n"
SP == " "

\* \s of the regular expressions, and what String.prototype.trim strips
IsWs(c) == c \in {SP, NL}

RECURSIVE TrimStart(_)
TrimStart(s) ==
    IF s # <<>> /\ IsWs(Head(s)) THEN TrimStart(Tail(s)) ELSE s

RECURSIVE TrimEnd(_)
TrimEnd(s) ==
    IF s # <<>> /\ IsWs(s[Len(s)]) THEN TrimEnd(SubSeq(s, 1, Len(s) - 1)) ELSE s

\* line.trim()
Trim(s) == TrimEnd(TrimStart(s))

\* content.split("\n"): always at least one piece, "" gives [""]
RECURSIVE Split(_)
Split(s) ==
    IF \E i \in 1..Len(s) : s[i] = NL
    THEN LET i == CHOOSE k \in 1..Len(s) :
                     s[k] = NL /\ \A j \in 1..(k - 1) : s[j] # NL
         IN  <<SubSeq(s, 1, i - 1)>> \o Split(SubSeq(s, i + 1, Len(s)))
    ELSE <<s>>

\* lines.join("\n")
RECURSIVE Join(_)
Join(lines) ==
    IF lines = <<>> THEN <<>>
    ELSE IF Len(lines) = 1 THEN lines[1]
    ELSE lines[1] \o <<NL>> \o Join(Tail(lines))

\* t.match(/^\[(.+)\]$/)
GenericSectionMatch(t) == Len(t) >= 3 /\ t[1] = "[" /\ t[Len(t)] = "]"

\* group 1 of /^\[(.+)\]$/
GenericSectionName(t) == SubSeq(t, 2, Len(t) - 1)

\* The ends i of the prefixes \S+ of t after which \s*=\s*.+$ matches:
\* t[1..i] holds no whitespace, "=" is the first non-blank after it, and at
\* least one character follows the "=".
KvKeyEnds(t) ==
    { i \in 1..Len(t) :
        /\ \A k \in 1..i : ~IsWs(t[k])
        /\ \E j \in (i + 1)..(Len(t) - 1) :
              /\ t[j] = "="
              /\ \A k \in (i + 1)..(j - 1) : IsWs(t[k]) }

\* t.match(/^(\S+)\s*=\s*(.+)$/)
KvMatch(t) == KvKeyEnds(t) # {}

\* group 1: \S+ is greedy, the longest prefix that lets the rest match
KvKeyEnd(t) == CHOOSE i \in KvKeyEnds(t) : \A k \in KvKeyEnds(t) : k <= i

KvKey(t) == SubSeq(t, 1, KvKeyEnd(t))

\* group 2: what follows the "=" and the blanks after it (\s* is greedy but
\* leaves one character to .+)
KvValue(t) ==
    LET i    == KvKeyEnd(t)
        j    == CHOOSE k \in (i + 1)..(Len(t) - 1) :
                    t[k] = "=" /\ \A m \in (i + 1)..(k - 1) : IsWs(t[m])
        rest == SubSeq(t, j + 1, Len(t))
        v    == TrimStart(rest)
    IN  IF v = <<>> THEN <<rest[Len(rest)]>> ELSE v

----------------------------------------------------------------------------
(* Credentials File Writer: updateAwsCredentialsFile, src/extension.js     *)

\* `[${profileName}]`
HeaderLine(profileName) == <<"[">> \o profileName \o <<"]">>

\* the three lines pushed after the header
KeyLines(credentials) ==
    << <<"aws_access_key_id", SP, "=", SP>> \o credentials.accessKeyId,
       <<"aws_secret_access_key", SP, "=", SP>> \o credentials.secretAccessKey,
       <<"aws_session_token", SP, "=", SP>> \o credentials.sessionToken >>

\* header and credentials, as pushed in both branches
SectionLines(profileName, credentials) ==
    <<HeaderLine(profileName)>> \o KeyLines(credentials)

\* a writer that drops every line under the target header
SkipEveryLine(trimmedLine) == TRUE

\* does the writer drop this (trimmed) line of the target section?
SkipInTarget(trimmedLine) == KvMatch(trimmedLine)

\* one iteration of `for (const line of lines)`
WriterStep(st, line, profileName, credentials) ==
    LET trimmedLine  == Trim(line)
        profileMatch == GenericSectionMatch(trimmedLine)
    IN  IF profileMatch /\ GenericSectionName(trimmedLine) = profileName
        THEN [newLines |-> st.newLines \o SectionLines(profileName, credentials),
              inTargetProfile |-> TRUE,
              profileFound |-> TRUE]
        ELSE LET inTarget == IF profileMatch THEN FALSE ELSE st.inTargetProfile
             IN  IF inTarget /\ SkipInTarget(trimmedLine)
                 THEN [st EXCEPT !.inTargetProfile = inTarget]
                 ELSE [newLines |-> Append(st.newLines, line),
                       inTargetProfile |-> inTarget,
                       profileFound |-> st.profileFound]

RECURSIVE WriterLoop(_, _, _, _)
WriterLoop(lines, st, profileName, credentials) ==
    IF lines = <<>> THEN st
    ELSE WriterLoop(Tail(lines),
                    WriterStep(st, Head(lines), profileName, credentials),
                    profileName, credentials)

\* the blank line pushed before an appended section
Separator(newLines) ==
    IF Len(newLines) > 0 /\ Trim(newLines[Len(newLines)]) # <<>>
    THEN << <<>> >>
    ELSE <<>>

\* a writer that adds the section at the end whether or not it was found
AppendAlways(st, profileName, credentials) ==
    st.newLines \o Separator(st.newLines)
                \o SectionLines(profileName, credentials)

\* `if (!profileFound)`: the section is added at the end
AppendIfMissing(st, profileName, credentials) ==
    IF ~st.profileFound
    THEN st.newLines \o Separator(st.newLines)
                     \o SectionLines(profileName, credentials)
    ELSE st.newLines

\* the content written for prior content `content`
UpdatedContent(content, profileName, credentials) ==
    LET lines == Split(content)
        st0   == [newLines |-> <<>>, inTargetProfile |-> FALSE,
                  profileFound |-> FALSE]
        st    == WriterLoop(lines, st0, profileName, credentials)
    IN  Join(AppendIfMissing(st, profileName, credentials))

----------------------------------------------------------------------------
(* JavaScript objects: string-keyed, enumerated in insertion order.  An    *)
(* object is a sequence of <<key, value>> pairs with distinct keys.        *)

EmptyObject == <<>>

Keys(obj) == { obj[i][1] : i \in 1..Len(obj) }

Has(obj, key) == \E i \in 1..Len(obj) : obj[i][1] = key

\* obj[key]; a missing property reads as undefined, written <<>> (falsy, as
\* the empty string is)
Get(obj, key) ==
    IF Has(obj, key)
    THEN obj[CHOOSE i \in 1..Len(obj) : obj[i][1] = key][2]
    ELSE <<>>

\* obj[key] = value: an existing key keeps its place in the order
Put(obj, key, value) ==
    IF Has(obj, key)
    THEN [i \in 1..Len(obj) |->
            IF obj[i][1] = key THEN <<key, value>> ELSE obj[i]]
    ELSE Append(obj, <<key, value>>)

\* Object.values(obj)
Values(obj) == [i \in 1..Len(obj) |-> obj[i][2]]

\* a string used as a condition: non-empty (undefined is <<>> here)
Truthy(v) == v # <<>>

----------------------------------------------------------------------------
(* Config Parser and Profile Resolver: parseAwsConfig,                     *)
(* src/unnamed/part_000 (the same text as src/extension.js 16-136)         *)

\* t.match(/^\[<word>\s+(.+)\]$/) for the word "profile" or "sso-session"
WordSectionMatch(t, word) ==
    /\ Len(t) >= 5
    /\ t[1] = "["
    /\ t[2] = word
    /\ IsWs(t[3])
    /\ t[Len(t)] = "]"

\* its group 1: \s+ is greedy, but leaves one character to .+
WordSectionName(t) ==
    LET rest == SubSeq(t, 4, Len(t) - 1)
        v    == TrimStart(rest)
    IN  IF v = <<>> THEN <<rest[Len(rest)]>> ELSE v

ProfileMatch(t) == WordSectionMatch(t, "profile")

SsoSessionMatch(t) == WordSectionMatch(t, "sso-session")

\* the key of `sections` for a section of the given type and name
SectionKey(type, name) ==
    IF type = "profile" THEN <<"profile", SP>> \o name
    ELSE IF type = "sso-session" THEN <<"sso-session", SP>> \o name
    ELSE name

\* a header line that opens a section only when the name is new and goes
\* on with the section it names otherwise
OpenSectionKeeps(st, type, name) ==
    [sections |-> IF Has(st.sections, SectionKey(type, name)) THEN st.sections
                  ELSE Put(st.sections, SectionKey(type, name), EmptyObject),
     currentSection |-> name,
     currentSectionType |-> type]

\* a header line opens a section: `sections[...] = {}`
OpenSection(st, type, name) ==
    [sections |-> Put(st.sections, SectionKey(type, name), EmptyObject),
     currentSection |-> name,
     currentSectionType |-> type]

\* one iteration of the scan, `for (const line of lines)` (lines 31-69)
ScanStep(st, line) ==
    LET trimmedLine == Trim(line)
    IN  IF trimmedLine = <<>> \/ trimmedLine[1] = "#" THEN st
        ELSE IF ProfileMatch(trimmedLine)
        THEN OpenSection(st, "profile", WordSectionName(trimmedLine))
        ELSE IF SsoSessionMatch(trimmedLine)
        THEN OpenSection(st, "sso-session", WordSectionName(trimmedLine))
        ELSE IF GenericSectionMatch(trimmedLine)
        THEN OpenSection(st, "other", GenericSectionName(trimmedLine))
        ELSE IF Truthy(st.currentSection) /\ KvMatch(trimmedLine)
        THEN LET key == SectionKey(st.currentSectionType, st.currentSection)
             IN  [st EXCEPT !.sections =
                     Put(st.sections, key,
                         Put(Get(st.sections, key),
                             KvKey(trimmedLine), KvValue(trimmedLine)))]
        ELSE st

RECURSIVE ScanLoop(_, _)
ScanLoop(lines, st) ==
    IF lines = <<>> THEN st ELSE ScanLoop(Tail(lines), ScanStep(st, Head(lines)))

\* the section map after the scan
ScanSections(content) ==
    ScanLoop(Split(content),
             [sections |-> EmptyObject, currentSection |-> <<>>,
              currentSectionType |-> "none"]).sections

\* sectionName.startsWith("profile ")
IsProfileKey(sectionName) ==
    Len(sectionName) >= 2 /\ sectionName[1] = "profile" /\ sectionName[2] = SP

\* sectionName.substring("profile ".length)
ProfileNameOfKey(sectionName) == SubSeq(sectionName, 3, Len(sectionName))

K(word) == <<word>>

\* case 1 (lines 83-96): the entry of a profile with direct SSO keys
DirectEntry(profileName, config) ==
    [name |-> profileName,
     startUrl |-> Get(config, K("sso_start_url")),
     region |-> Get(config, K("sso_region")),
     accountId |-> Get(config, K("sso_account_id")),
     roleName |-> Get(config, K("sso_role_name"))]

\* case 2 (lines 107-113): the entry of a profile that names an sso-session
SessionEntry(profileName, config, ssoSessionConfig) ==
    [name |-> profileName,
     startUrl |-> Get(ssoSessionConfig, K("sso_start_url")),
     region |-> Get(ssoSessionConfig, K("sso_region")),
     accountId |-> Get(config, K("sso_account_id")),
     roleName |-> Get(config, K("sso_role_name"))]

\* a resolver that gives a chained profile its source profile's entry
ChainedAsSource(ssoProfiles, profileName, config) ==
    LET sourceProfileName == Get(config, K("source_profile"))
    IN  IF Has(ssoProfiles, sourceProfileName)
        THEN Put(ssoProfiles, profileName,
                 [Get(ssoProfiles, sourceProfileName) EXCEPT !.name = profileName])
        ELSE ssoProfiles

\* case 3 (lines 117-124): a profile with source_profile and role_arn is
\* looked up and nothing is added
Chained(ssoProfiles, profileName, config) == ssoProfiles

\* one iteration of the resolver loop (lines 74-125)
ResolveStep(ssoProfiles, sections, sectionName, config) ==
    IF ~IsProfileKey(sectionName) THEN ssoProfiles
    ELSE LET profileName == ProfileNameOfKey(sectionName)
         IN  IF /\ Truthy(Get(config, K("sso_start_url")))
                /\ Truthy(Get(config, K("sso_region")))
                /\ Truthy(Get(config, K("sso_account_id")))
                /\ Truthy(Get(config, K("sso_role_name")))
             THEN Put(ssoProfiles, profileName, DirectEntry(profileName, config))
             ELSE IF /\ Truthy(Get(config, K("sso_session")))
                     /\ Truthy(Get(config, K("sso_account_id")))
                     /\ Truthy(Get(config, K("sso_role_name")))
             THEN LET ssoSessionName   == Get(config, K("sso_session"))
                      sessionKey       == <<"sso-session", SP>> \o ssoSessionName
                      ssoSessionConfig == Get(sections, sessionKey)
                  IN  IF /\ Has(sections, sessionKey)
                         /\ Truthy(Get(ssoSessionConfig, K("sso_start_url")))
                         /\ Truthy(Get(ssoSessionConfig, K("sso_region")))
                      THEN Put(ssoProfiles, profileName,
                               SessionEntry(profileName, config, ssoSessionConfig))
                      ELSE ssoProfiles
             ELSE IF /\ Truthy(Get(config, K("source_profile")))
                     /\ Truthy(Get(config, K("role_arn")))
             THEN Chained(ssoProfiles, profileName, config)
             ELSE ssoProfiles

RECURSIVE ResolveLoop(_, _, _)
ResolveLoop(entries, sections, ssoProfiles) ==
    IF entries = <<>> THEN ssoProfiles
    ELSE ResolveLoop(Tail(entries), sections,
                     ResolveStep(ssoProfiles, sections,
                                 Head(entries)[1], Head(entries)[2]))

\* a resolver that meets each section knowing only the sections above it
RECURSIVE ResolveEarlier(_, _, _)
ResolveEarlier(i, sections, ssoProfiles) ==
    IF i > Len(sections) THEN ssoProfiles
    ELSE ResolveEarlier(i + 1, sections,
                        ResolveStep(ssoProfiles, SubSeq(sections, 1, i),
                                    sections[i][1], sections[i][2]))

ResolveInOnePass(sections) == ResolveEarlier(1, sections, EmptyObject)

\* the resolver: for (const [sectionName, config] of Object.entries(sections))
ResolveProfiles(sections) == ResolveLoop(sections, sections, EmptyObject)

\* parseAwsConfig() with a readable file system
ParseConfig(exists, content) ==
    IF ~exists THEN EmptyObject ELSE ResolveProfiles(ScanSections(content))

\* the try block of parseAwsConfig (lines 17-131): it returns a mapping or
\* throws; existsSync never throws, readFileSync does on an unreadable file
TryBlock(exists, readable, content) ==
    IF exists /\ ~readable
    THEN [threw |-> TRUE, value |-> EmptyObject, sections |-> EmptyObject]
    ELSE LET sections == IF exists THEN ScanSections(content) ELSE EmptyObject
         IN  [threw |-> FALSE,
              value |-> IF exists THEN ResolveProfiles(sections) ELSE EmptyObject,
              sections |-> sections]

\* a parseAwsConfig without its catch block: what is thrown reaches the caller
RethrowToCaller(outcome) == outcome

\* the catch block (lines 132-135): the error is logged and {} is returned
CatchBlock(outcome) ==
    IF outcome.threw
    THEN [threw |-> FALSE, value |-> EmptyObject, sections |-> outcome.sections]
    ELSE outcome

----------------------------------------------------------------------------
(* Profile Source Merger: getAwsSsoProfiles, src/unnamed/part_000 142-159  *)

\* for (const profile of vscodeProfiles) vscodeProfilesMap[profile.name] = profile
RECURSIVE SettingsMap(_, _)
SettingsMap(vscodeProfiles, acc) ==
    IF vscodeProfiles = <<>> THEN acc
    ELSE SettingsMap(Tail(vscodeProfiles),
                     Put(acc, Head(vscodeProfiles).name, Head(vscodeProfiles)))

\* { ...a, ...b }: b's properties are put over a's
RECURSIVE Spread(_, _)
Spread(a, b) ==
    IF b = <<>> THEN a ELSE Spread(Put(a, b[1][1], b[1][2]), Tail(b))

\* a merge in which the settings win
SettingsOverConfig(vscodeProfilesMap, parsedProfiles) ==
    Spread(parsedProfiles, vscodeProfilesMap)

\* const mergedProfiles = { ...vscodeProfilesMap, ...configProfiles }
MergedProfiles(vscodeProfilesMap, parsedProfiles) ==
    Spread(vscodeProfilesMap, parsedProfiles)

----------------------------------------------------------------------------
(* Inputs of the writer                                                    *)

\* credentials values; getAwsCredentials hands on the service's strings
\* without checking them, an empty one included
CredFull  == [accessKeyId |-> <<"A">>, secretAccessKey |-> <<"S">>,
              sessionToken |-> <<"T">>]
CredEmpty == [accessKeyId |-> <<"B">>, secretAccessKey |-> <<"S">>,
              sessionToken |-> <<>>]

\* the calls updateAwsCredentialsFile(profileName, credentials) of the model
WriterCalls ==
    { <<(<<"p">>), CredFull>>, <<(<<"p">>), CredEmpty>>, <<(<<"q">>), CredFull>> }

\* pieces of a credentials file as the user may have left it; the section r
\* ends in a line break, the last piece in a line that holds one blank
Chunks ==
    { <<"[", "p", "]", NL, "k", SP, "=", SP, "v", NL, "#", SP, "c">>,
      <<SP, "[", "p", "]">>,
      <<"[", "q", "]", NL, "k", SP, "=", SP, "v">>,
      <<"[", "r", "]", NL, "#", SP, "c", NL, "k", "=", "v", NL>>,
      <<"k", "=", "v", NL, NL, SP>> }

ChunkSeqs == UNION { [1..n -> Chunks] : n \in 1..MaxChunks }

\* the empty file and the files made of up to MaxChunks pieces
InitialContents == { <<>> } \cup { Join(cs) : cs \in ChunkSeqs }

NoCreds == [accessKeyId |-> <<>>, secretAccessKey |-> <<>>, sessionToken |-> <<>>]

\* no profile discovery is under way
DiscoveryIdle ==
    /\ cfgExists = FALSE
    /\ cfgContent = <<>>
    /\ cfgReadable = TRUE
    /\ cfgSections = EmptyObject
    /\ settings = <<>>
    /\ discPc = "start"
    /\ configProfiles = EmptyObject
    /\ profiles = <<>>

\* no login is under way
LoginIdle ==
    /\ lgPc = "idle"
    /\ lgName = <<>>
    /\ installed = {}
    /\ probed = <<>>
    /\ awsPath = 0
    /\ childSpawned = 0
    /\ promise = "pending"
    /\ lgResult = "none"
    /\ stderr = <<>>
    /\ verificationCodeFound = FALSE
    /\ log = <<>>

\* the environment has not been built
EnvIdle ==
    /\ envSet = FALSE
    /\ envPath = <<>>
    /\ envInput = [set |-> FALSE, path |-> <<>>]
    /\ envBefore = [set |-> FALSE, path |-> <<>>]
    /\ envCount = 0

\* no write has been made and the credentials file is absent
WriterIdle ==
    /\ credExists = FALSE
    /\ credContent = <<>>
    /\ wCount = 0
    /\ wSame = 0
    /\ wProfile = <<>>
    /\ wCreds = NoCreds
    /\ wBeforeExists = FALSE
    /\ wBefore = <<>>
    /\ wWritten = EmptyObject

\* no login command is under way
CommandIdle ==
    /\ cmdPc = "idle"
    /\ cmdTrace = <<>>
    /\ cmdShown = <<>>
    /\ awsDirExists = TRUE

\* formatExpirationTime has not been called
FormatIdle ==
    /\ fmtDiff = 0
    /\ fmtOut = <<>>

InitWriter ==
    /\ DiscoveryIdle
    /\ LoginIdle
    /\ EnvIdle
    /\ CommandIdle
    /\ FormatIdle
    /\ credExists \in BOOLEAN
    /\ credContent \in InitialContents
    /\ (~credExists => credContent = <<>>)
    /\ wCount = 0
    /\ wSame = 0
    /\ wProfile = <<>>
    /\ wCreds = NoCreds
    /\ wBeforeExists = credExists
    /\ wBefore = credContent
    /\ wWritten = EmptyObject

\* updateAwsCredentialsFile(profileName, credentials), file system healthy
UpdateAwsCredentialsFile(profileName, credentials) ==
    /\ wCount < MaxWrites
    /\ credContent' = UpdatedContent(IF credExists THEN credContent ELSE <<>>,
                                     profileName, credentials)
    /\ credExists' = TRUE
    /\ wBeforeExists' = credExists
    /\ wBefore' = credContent
    /\ wProfile' = profileName
    /\ wCreds' = credentials
    /\ wWritten' = Put(wWritten, profileName, credentials)
    /\ wCount' = wCount + 1
    /\ wSame' = IF wCount > 0 /\ wProfile = profileName /\ wCreds = credentials
                THEN wSame + 1 ELSE 1
    /\ UNCHANGED <<discVars, loginVars, envVars, cmdVars, fmtVars>>

WriteAny ==
    \E call \in WriterCalls : UpdateAwsCredentialsFile(call[1], call[2])

NextWriter == WriteAny

SpecWriter == InitWriter /\ [][NextWriter]_vars

\* a second set of credentials, no value empty
CredOther == [accessKeyId |-> <<"C">>, secretAccessKey |-> <<"D">>,
              sessionToken |-> <<"U", "=", "=">>]

\* names and credentials of the writes to a file that starts empty
SeqNames == { <<"p">>, <<"q">>, <<"r">> }

SeqCreds == { CredFull, CredOther }

\* the credentials file is absent or empty and nothing has been written
InitWriteSeq ==
    /\ DiscoveryIdle
    /\ LoginIdle
    /\ EnvIdle
    /\ CommandIdle
    /\ FormatIdle
    /\ credExists \in BOOLEAN
    /\ credContent = <<>>
    /\ wCount = 0
    /\ wSame = 0
    /\ wProfile = <<>>
    /\ wCreds = NoCreds
    /\ wBeforeExists = credExists
    /\ wBefore = <<>>
    /\ wWritten = EmptyObject

WriteNonEmpty ==
    \E name \in SeqNames, c \in SeqCreds : UpdateAwsCredentialsFile(name, c)

NextWriteSeq == WriteNonEmpty

SpecWriteSeq == InitWriteSeq /\ [][NextWriteSeq]_vars

----------------------------------------------------------------------------
(* Profile discovery as a state machine, and its inputs                    *)

X == <<"X">>
Y == <<"Y">>
S == <<"S">>

KvLine(key, value) == <<key, SP, "=", SP>> \o value

\* the header lines of a config file
ConfigHeads ==
    { <<"[", "profile", SP, "X", "]">>,
      <<SP, "[", "profile", SP, SP, "Y", "]", SP>>,
      <<"[", "sso-session", SP, "S", "]">>,
      <<"[", "profile", SP, "]">>,
      <<"[", "default", "]">> }

\* the headers that are neither `[profile <name>]` nor `[sso-session <name>]`
GenericHeads ==
    { <<"[", "profile", SP, "]">>,
      <<"[", "default", "]">> }

\* direct SSO keys, with a comment and a line that is no key=value
DirectBody ==
    << KvLine("sso_start_url", <<"u1">>),
       <<"#", SP, "sso_region", SP, "=", SP, "r0">>,
       KvLine("sso_region", <<"r1">>),
       <<"sso_account_id", "=", "a1">>,
       <<"sso_role_name">>,
       <<SP, "sso_role_name", SP, "=", "n1", SP>> >>

\* the same keys, written without blanks, the URL holding a "="
CompactBody ==
    << <<"sso_start_url", "=", "u", "?", "a", "=", "b">>,
       <<"sso_region", "=", "r1">>,
       <<"sso_account_id", "=", "a1">>,
       <<"sso_role_name", "=", "n1">> >>

\* a reference to the session S, beside a start URL of the profile's own
SessionLinkBody ==
    << KvLine("sso_start_url", <<"u3">>),
       KvLine("sso_session", S),
       KvLine("sso_account_id", <<"a2">>),
       KvLine("sso_role_name", <<"n2">>) >>

\* what a session section holds; the region is set twice
SessionBody ==
    << KvLine("sso_start_url", <<"u2">>),
       KvLine("sso_region", <<"r9">>),
       KvLine("sso_region", <<"r2">>) >>

\* half of it
HalfSessionBody == << KvLine("sso_region", <<"r2">>) >>

\* role chaining
ChainBody ==
    << KvLine("source_profile", X),
       KvLine("role_arn", <<"arn">>) >>

\* the lines under a header
ConfigBodies ==
    { <<>>, DirectBody, CompactBody, SessionLinkBody, SessionBody,
      HalfSessionBody, ChainBody }

\* every body under the profile and session headers, the direct keys under
\* the two other headers
ConfigSections ==
    { <<h>> \o b : h \in ConfigHeads \ GenericHeads, b \in ConfigBodies }
    \cup { <<h>> \o b : h \in GenericHeads, b \in { DirectBody, CompactBody } }

RECURSIVE Flatten(_)
Flatten(seqs) == IF seqs = <<>> THEN <<>> ELSE Head(seqs) \o Flatten(Tail(seqs))

\* config files of up to MaxSections sections
ConfigTexts ==
    { Join(Flatten(ss)) :
        ss \in UNION { [1..n -> ConfigSections] : n \in 1..MaxSections } }

Profile(n, u, r, a, role) ==
    [name |-> n, startUrl |-> <<u>>, region |-> <<r>>, accountId |-> <<a>>,
     roleName |-> <<role>>]

\* entries of the awsSsoLogin.profiles setting
SettingsPool ==
    { Profile(X, "su", "sr1", "sa", "sn"),
      Profile(X, "su", "sr2", "sa", "sn"),
      Profile(Y, "su", "sr1", "sa", "sn"),
      Profile(<<"Z">>, "su", "sr1", "sa", "sn") }

SettingsLists == UNION { [1..n -> SettingsPool] : n \in 0..MaxSettings }

\* config files for the merger
MergeConfigTexts ==
    { Join(Flatten(ss)) :
        ss \in UNION { [1..n -> { <<h>> \o b :
                                    h \in { <<"[", "profile", SP, "X", "]">>,
                                            <<SP, "[", "profile", SP, SP, "Y", "]", SP>>,
                                            <<"[", "profile", SP, "]">> },
                                    b \in { <<>>,
                                            << KvLine("sso_start_url", <<"u1">>),
                                               KvLine("sso_region", <<"r1">>),
                                               KvLine("sso_account_id", <<"a1">>),
                                               KvLine("sso_role_name", <<"n1">>) >> } }]
                       : n \in 1..MaxSections } }

DiscoveryStart ==
    /\ discPc = "start"
    /\ cfgSections = EmptyObject
    /\ configProfiles = EmptyObject
    /\ profiles = <<>>

\* the texts of a file that cannot be read: nothing looks at them
UnreadableTexts ==
    { <<>>,
      Join(<< <<"[", "profile", SP, "X", "]">>,
              KvLine("sso_start_url", <<"u1">>),
              KvLine("sso_region", <<"r1">>),
              KvLine("sso_account_id", <<"a1">>),
              KvLine("sso_role_name", <<"n1">>) >>) }

\* the config file: absent, present and unreadable, or present with a text
ConfigFile(texts) ==
    /\ cfgExists \in BOOLEAN
    /\ cfgReadable \in BOOLEAN
    /\ cfgContent \in texts \cup UnreadableTexts
    /\ (~cfgExists => cfgContent = <<>> /\ cfgReadable)
    /\ (~cfgReadable => cfgContent \in UnreadableTexts)

InitParser ==
    /\ WriterIdle
    /\ LoginIdle
    /\ EnvIdle
    /\ CommandIdle
    /\ FormatIdle
    /\ DiscoveryStart
    /\ ConfigFile(ConfigTexts)
    /\ settings = <<>>

InitMerge ==
    /\ WriterIdle
    /\ LoginIdle
    /\ EnvIdle
    /\ CommandIdle
    /\ FormatIdle
    /\ DiscoveryStart
    /\ ConfigFile(MergeConfigTexts)
    /\ settings \in SettingsLists

\* getAwsSsoProfiles up to its await: parseAwsConfig() runs and returns
\* (an error that left parseAwsConfig would reject getAwsSsoProfiles)
ParseAwsConfig ==
    /\ discPc = "start"
    /\ LET outcome == CatchBlock(TryBlock(cfgExists, cfgReadable, cfgContent))
       IN  /\ configProfiles' = outcome.value
           /\ cfgSections' = outcome.sections
           /\ discPc' = IF outcome.threw THEN "thrown" ELSE "parsed"
    /\ UNCHANGED <<cfgExists, cfgContent, cfgReadable, settings, profiles>>
    /\ UNCHANGED <<writerVars, loginVars, envVars, cmdVars, fmtVars>>

\* getAwsSsoProfiles after the await: the settings are read and merged
GetAwsSsoProfiles ==
    /\ discPc = "parsed"
    /\ profiles' = Values(MergedProfiles(SettingsMap(settings, EmptyObject),
                                         configProfiles))
    /\ discPc' = "merged"
    /\ UNCHANGED <<cfgExists, cfgContent, cfgReadable, cfgSections, settings,
                   configProfiles>>
    /\ UNCHANGED <<writerVars, loginVars, envVars, cmdVars, fmtVars>>

NextDiscovery == ParseAwsConfig \/ GetAwsSsoProfiles

SpecParser == InitParser /\ [][NextDiscovery]_vars

SpecMerge == InitMerge /\ [][NextDiscovery]_vars

\* config files of profile and session sections, for the statements about
\* the order and the repetition of sections
SectionHeads ==
    { <<"[", "profile", SP, "X", "]">>,
      <<SP, "[", "profile", SP, SP, "Y", "]", SP>>,
      <<"[", "sso-session", SP, "S", "]">> }

SectionBodies ==
    { <<>>, DirectBody, SessionLinkBody, SessionBody, HalfSessionBody }

SectionTexts ==
    { Join(Flatten(ss)) :
        ss \in UNION { [1..n -> { <<h>> \o b : h \in SectionHeads,
                                                 b \in SectionBodies }] :
                         n \in 1..MaxSections } }

InitSections ==
    /\ WriterIdle
    /\ LoginIdle
    /\ EnvIdle
    /\ CommandIdle
    /\ FormatIdle
    /\ DiscoveryStart
    /\ cfgExists = TRUE
    /\ cfgReadable = TRUE
    /\ cfgContent \in SectionTexts
    /\ settings = <<>>

SpecSections == InitSections /\ [][NextDiscovery]_vars

----------------------------------------------------------------------------
(* Login driver: findAwsCliPath and startSsoLogin, src/unnamed/part_000.   *)
(* Texts of the child (its error stream, an error's message) are sequences *)
(* of characters in which the words of the messages the code looks for     *)
(* ("command", "not", "found", "recognized", "ENOENT") are one atom each.   *)

LowerCase ==
    { "a", "b", "c", "d", "e", "f", "g", "h", "i", "j", "k", "l", "m",
      "n", "o", "p", "q", "r", "s", "t", "u", "v", "w", "x", "y", "z" }

UpperCase ==
    { "A", "B", "C", "D", "E", "F", "G", "H", "I", "J", "K", "L", "M",
      "N", "O", "P", "Q", "R", "S", "T", "U", "V", "W", "X", "Y", "Z" }

Digits == { "0", "1", "2", "3", "4", "5", "6", "7", "8", "9" }

\* /^[a-zA-Z0-9_.-]+$/.test(name)
IsValidProfileName(name) ==
    /\ name # <<>>
    /\ \A i \in 1..Len(name) :
          name[i] \in LowerCase \cup UpperCase \cup Digits \cup { "_", ".", "-" }

\* text.includes(pattern)
Includes(text, pattern) ==
    \E i \in 1..(Len(text) - Len(pattern) + 1) :
        SubSeq(text, i, i + Len(pattern) - 1) = pattern

\* the candidate locations of findAwsCliPath, in its order
commonPaths ==
    << "aws",
       "/usr/local/bin/aws",
       "/usr/bin/aws",
       "/opt/homebrew/bin/aws",
       "/usr/local/homebrew/bin/aws",
       "C:\\Program Files\\Amazon\\AWSCLI\\bin\\aws.exe",
       "C:\\Program Files (x86)\\Amazon\\AWSCLI\\bin\\aws.exe" >>

\* a findAwsCliPath that goes on after a success and returns the last
\* candidate that answered
ProbeOnAfterSuccess(i, ok, found) ==
    IF i = Len(commonPaths)
    THEN [done |-> TRUE, awsPath |-> IF ok THEN i ELSE found]
    ELSE [done |-> FALSE, awsPath |-> IF ok THEN i ELSE found]

\* one iteration of `for (const awsPath of commonPaths)`: candidate i was
\* probed, ok tells whether execAsync resolved; awsPath 0 stands for null
ProbeStep(i, ok, found) ==
    IF ok THEN [done |-> TRUE, awsPath |-> i]
    ELSE IF i = Len(commonPaths) THEN [done |-> TRUE, awsPath |-> 0]
    ELSE [done |-> FALSE, awsPath |-> found]

\* notifications
InstallHint == [kind |-> "installHint", text |-> <<>>]

InvalidName(name) == [kind |-> "invalidName", text |-> name]

LoginFailed(text) == [kind |-> "loginFailed", text |-> text]

CodeInfo(code) == [kind |-> "codeInfo", text |-> code]

\* what one run of a handler did: the notifications it showed, the codes it
\* surfaced (progress report, clipboard write and information message), the
\* signals it sent to the child and the values it passed to resolve()
Did(ev, arg, notes, surfaced, signals, resolved) ==
    [ev |-> ev, arg |-> arg, notes |-> notes, surfaced |-> surfaced,
     signals |-> signals, resolved |-> resolved]

\* [A-Z0-9]
CodeChar(c) == c \in UpperCase \cup Digits

\* /([A-Z0-9]{4}-[A-Z0-9]{4})/ matches at position i
CodeAt(text, i) ==
    /\ i + 8 <= Len(text)
    /\ \A k \in i..(i + 3) : CodeChar(text[k])
    /\ text[i + 4] = "-"
    /\ \A k \in (i + 5)..(i + 8) : CodeChar(text[k])

\* text.match(/([A-Z0-9]{4}-[A-Z0-9]{4})/)
CodeMatch(text) == \E i \in 1..Len(text) : CodeAt(text, i)

\* codeMatch[1]: the leftmost match
MatchedCode(text) ==
    LET i == CHOOSE k \in 1..Len(text) :
                 CodeAt(text, k) /\ \A j \in 1..(k - 1) : ~CodeAt(text, j)
    IN  SubSeq(text, i, i + 8)

\* a handler that scans every chunk, whatever was found before
ScanAlways(found) == TRUE

\* `if (!verificationCodeFound)`
ScanForCode(found) == ~found

\* child.stderr.on('data'): the chunk is added to stderr and, until a code
\* was found, searched for one
OnStderrData(text, acc, found) ==
    IF ScanForCode(found) /\ CodeMatch(text)
    THEN [stderr |-> acc \o text, found |-> TRUE,
          did |-> Did("data", text, <<CodeInfo(MatchedCode(text))>>,
                      <<MatchedCode(text)>>, <<>>, <<>>)]
    ELSE [stderr |-> acc \o text, found |-> found,
          did |-> Did("data", text, <<>>, <<>>, <<>>, <<>>)]

\* stderr.trim() || `AWS CLI exited with code ${code}`
ErrorMsg(acc, code) ==
    IF Trim(acc) # <<>> THEN Trim(acc)
    ELSE <<"AWS CLI exited with code ", code>>

\* a close handler that takes every failure for a generic one
FailureAlwaysGeneric(errorMsg) == LoginFailed(errorMsg)

\* the notification of a non-zero exit (lines 336-340)
FailureNote(errorMsg) ==
    IF \/ Includes(errorMsg, <<"command", SP, "not", SP, "found">>)
       \/ Includes(errorMsg, <<"not", SP, "recognized">>)
    THEN InstallHint
    ELSE LoginFailed(errorMsg)

\* child.on('close')
OnClose(code, acc) ==
    IF code = "0"
    THEN Did("close", code, <<>>, <<>>, <<>>, <<"true">>)
    ELSE Did("close", code, <<FailureNote(ErrorMsg(acc, code))>>, <<>>, <<>>,
             <<"false">>)

\* child.on('error')
OnError(message) ==
    Did("error", message,
        <<IF Includes(message, <<"ENOENT">>) THEN InstallHint
          ELSE LoginFailed(message)>>,
        <<>>, <<>>, <<"false">>)

\* cancellationToken.onCancellationRequested
OnCancel == Did("cancel", <<>>, <<>>, <<>>, <<"SIGTERM">>, <<"false">>)

\* a promise whose every resolve() call sets its value
ResolveLastWins(p, values) ==
    IF values = <<>> THEN p ELSE values[Len(values)]

\* resolve(v) on the promise: only the first call settles it
Resolve(p, values) ==
    IF values = <<>> \/ p # "pending" THEN p ELSE values[1]

----------------------------------------------------------------------------
(* One call of startSsoLogin                                               *)

\* profile names as the config file or the settings may give them
LoginNames ==
    { <<"a", "Z", "0", "_", ".", "-">>,
      <<>>,
      <<"a", ";", "b">>,
      <<"a", SP, "b">>,
      <<"a", NL>> }

\* machines: the candidates of commonPaths (by index) that answer the probe
Machines == { {}, {3, 5}, {7} }

\* what the child may write to its error stream in one piece
StderrChunks ==
    { <<"c", "o", "d", "e", ":", SP, "A", "B", "1", "2", "-", "C", "D", "3", "4", NL>>,
      <<"A", "B", "1", "2", "-">>,
      <<"C", "D", "3", "4">>,
      <<"9", "X", "Y", "Z", "-", "5", "6", "7", "8">>,
      <<"a", "b", "1", "2", "-", "c", "d", "3", "4">>,
      <<"z", "s", "h", ":", SP, "command", SP, "not", SP, "found", NL>>,
      <<"not", SP, "recognized">>,
      <<SP, NL>> }

\* exit codes of the close event; "null" when a signal ended the child
ExitCodes == { "0", "1", "null" }

\* messages of the error event
ErrorMessages == { <<"spawn", SP, "aws", SP, "ENOENT">>, <<"kill", SP, "EPERM">> }

\* the number of runs of the handler of `ev` so far
Runs(ev) == Cardinality({ i \in 1..Len(log) : log[i].ev = ev })

InitLogin ==
    /\ WriterIdle
    /\ DiscoveryIdle
    /\ EnvIdle
    /\ CommandIdle
    /\ FormatIdle
    /\ lgPc = "probing"
    /\ lgName \in LoginNames
    /\ installed \in Machines
    /\ probed = <<>>
    /\ awsPath = 0
    /\ childSpawned = 0
    /\ promise = "pending"
    /\ lgResult = "none"
    /\ stderr = <<>>
    /\ verificationCodeFound = FALSE
    /\ log = <<>>

\* findAwsCliPath: the next candidate is probed (a process is spawned for it)
Probe ==
    /\ lgPc = "probing"
    /\ LET i == Len(probed) + 1
           r == ProbeStep(i, i \in installed, awsPath)
       IN  /\ probed' = Append(probed, i)
           /\ awsPath' = r.awsPath
           /\ lgPc' = IF r.done THEN "found" ELSE "probing"
    /\ UNCHANGED <<lgName, installed, childSpawned, promise, lgResult, stderr,
                   verificationCodeFound, log>>
    /\ UNCHANGED <<writerVars, discVars, envVars, cmdVars, fmtVars>>

\* startSsoLogin after `await findAwsCliPath()` (lines 257-354): it gives up
\* without the tool or on a bad name, else it spawns the child and registers
\* the handlers
AfterFind ==
    /\ lgPc = "found"
    /\ IF awsPath = 0
       THEN /\ log' = Append(log, Did("start", lgName, <<InstallHint>>,
                                      <<>>, <<>>, <<>>))
            /\ lgResult' = "false"
            /\ lgPc' = "returned"
            /\ UNCHANGED childSpawned
       ELSE IF ~IsValidProfileName(lgName)
       THEN /\ log' = Append(log, Did("start", lgName, <<InvalidName(lgName)>>,
                                      <<>>, <<>>, <<>>))
            /\ lgResult' = "false"
            /\ lgPc' = "returned"
            /\ UNCHANGED childSpawned
       ELSE /\ log' = Append(log, Did("start", lgName, <<>>, <<>>, <<>>, <<>>))
            /\ childSpawned' = childSpawned + 1
            /\ lgPc' = "running"
            /\ UNCHANGED lgResult
    /\ UNCHANGED <<lgName, installed, probed, awsPath, promise, stderr,
                   verificationCodeFound>>
    /\ UNCHANGED <<writerVars, discVars, envVars, cmdVars, fmtVars>>

\* the child lives on after startSsoLogin returned: its handlers stay.  No
\* event is delivered between the return and the command's continuation
\* (the continuation of an await runs before the next event is taken)
ChildAttached == childSpawned = 1 /\ lgPc \in { "running", "done" }

\* a handler ran: what it did is logged, its resolve() calls reach the promise
Handled(did) ==
    /\ log' = Append(log, did)
    /\ promise' = Resolve(promise, did.resolved)

\* a data event of the error stream (none after the close event)
StderrData(text) ==
    /\ ChildAttached
    /\ Runs("close") = 0
    /\ Runs("data") < MaxData
    /\ LET r == OnStderrData(text, stderr, verificationCodeFound)
       IN  /\ stderr' = r.stderr
           /\ verificationCodeFound' = r.found
           /\ Handled(r.did)
    /\ UNCHANGED <<lgPc, lgName, installed, probed, awsPath, childSpawned, lgResult>>
    /\ UNCHANGED <<writerVars, discVars, envVars, cmdVars, fmtVars>>

\* the close event
Close(code) ==
    /\ ChildAttached
    /\ Runs("close") = 0
    /\ Handled(OnClose(code, stderr))
    /\ UNCHANGED <<lgPc, lgName, installed, probed, awsPath, childSpawned, lgResult,
                   stderr, verificationCodeFound>>
    /\ UNCHANGED <<writerVars, discVars, envVars, cmdVars, fmtVars>>

\* the error event (spawning, killing or signalling the child failed)
ChildError(message) ==
    /\ ChildAttached
    /\ Runs("close") = 0
    /\ Runs("error") = 0
    /\ Handled(OnError(message))
    /\ UNCHANGED <<lgPc, lgName, installed, probed, awsPath, childSpawned, lgResult,
                   stderr, verificationCodeFound>>
    /\ UNCHANGED <<writerVars, discVars, envVars, cmdVars, fmtVars>>

\* the user cancels the progress notification; the request may cross the
\* settling of the promise, not the return of startSsoLogin
Cancel ==
    /\ childSpawned = 1
    /\ lgPc = "running"
    /\ Runs("cancel") = 0
    /\ Handled(OnCancel)
    /\ UNCHANGED <<lgPc, lgName, installed, probed, awsPath, childSpawned, lgResult,
                   stderr, verificationCodeFound>>
    /\ UNCHANGED <<writerVars, discVars, envVars, cmdVars, fmtVars>>

\* `const result = await vscode.window.withProgress(...); return result`
Return ==
    /\ lgPc = "running"
    /\ promise # "pending"
    /\ lgResult' = promise
    /\ lgPc' = "returned"
    /\ UNCHANGED <<lgName, installed, probed, awsPath, childSpawned, promise,
                   stderr, verificationCodeFound, log>>
    /\ UNCHANGED <<writerVars, discVars, envVars, cmdVars, fmtVars>>

\* the information message of a successful login
LoginSuccessful(name) == [kind |-> "loginSuccessful", text |-> name]

\* a login command that calls startSsoLogin again when it returned false
AfterLoginRetry(loginSuccess, name) ==
    IF loginSuccess = "true"
    THEN [pc |-> "done", notes |-> <<LoginSuccessful(name)>>]
    ELSE [pc |-> "probing", notes |-> <<>>]

\* the login command after `await startSsoLogin(profile)`: it returns when
\* the login failed, else it shows the success message and returns
AfterLogin(loginSuccess, name) ==
    IF loginSuccess = "true"
    THEN [pc |-> "done", notes |-> <<LoginSuccessful(name)>>]
    ELSE [pc |-> "done", notes |-> <<>>]

\* the login command goes on after startSsoLogin returned; a further call
\* of startSsoLogin would start with fresh locals
CommandAfterLogin ==
    /\ lgPc = "returned"
    /\ LET r == AfterLogin(lgResult, lgName)
       IN  /\ lgPc' = r.pc
           /\ cmdShown' = cmdShown \o r.notes
           /\ cmdTrace' = Append(cmdTrace, "afterLogin")
           /\ IF r.pc = "probing"
              THEN /\ probed' = <<>>
                   /\ awsPath' = 0
                   /\ promise' = "pending"
                   /\ lgResult' = "none"
                   /\ stderr' = <<>>
                   /\ verificationCodeFound' = FALSE
              ELSE UNCHANGED <<probed, awsPath, promise, lgResult, stderr,
                               verificationCodeFound>>
    /\ UNCHANGED <<lgName, installed, childSpawned, log, cmdPc, awsDirExists>>
    /\ UNCHANGED <<writerVars, discVars, envVars, fmtVars>>

AnyStderrData == \E text \in StderrChunks : StderrData(text)

AnyClose == \E code \in ExitCodes : Close(code)

AnyChildError == \E message \in ErrorMessages : ChildError(message)

NextLogin == Probe \/ AfterFind \/ AnyStderrData \/ AnyClose \/ AnyChildError
                \/ Cancel \/ Return \/ CommandAfterLogin

SpecLogin == InitLogin /\ [][NextLogin]_vars

----------------------------------------------------------------------------
(* Environment: buildEnvWithPaths, src/unnamed/part_000 174-187.  A PATH   *)
(* is a sequence of characters in which ":" is one and each directory name *)
(* below is one atom; none of these names is part of another.              *)

\* parts.join(sep)
RECURSIVE JoinWith(_, _)
JoinWith(parts, sep) ==
    IF parts = <<>> THEN <<>>
    ELSE IF Len(parts) = 1 THEN parts[1]
    ELSE parts[1] \o <<sep>> \o JoinWith(Tail(parts), sep)

homebrewPaths ==
    << <<"/opt/homebrew/bin">>, <<"/usr/local/homebrew/bin">>, <<"/usr/local/bin">> >>

\* a filter that takes every directory for missing
NeverOnPath(currentPath, p) == TRUE

\* the filter `p => !currentPath.includes(p)`
NotOnPath(currentPath, p) == ~Includes(currentPath, p)

\* homebrewPaths.filter(...).join(":")
AdditionalPaths(currentPath) ==
    JoinWith(SelectSeq(homebrewPaths, LAMBDA p : NotOnPath(currentPath, p)), ":")

\* buildEnvWithPaths() for a process.env whose PATH is env.path when env.set
BuildEnv(env) ==
    LET currentPath     == IF env.set THEN env.path ELSE <<>>
        additionalPaths == AdditionalPaths(currentPath)
    IN  IF additionalPaths # <<>>
        THEN [set |-> TRUE, path |-> additionalPaths \o <<":">> \o currentPath]
        ELSE env

\* entries of a PATH as the user may have set them
PathEntries ==
    { <<"/usr/bin">>,
      <<"/usr/local/bin">>,
      <<"/opt/homebrew/bin">>,
      <<"/usr/local/homebrew/bin">>,
      <<"/usr/local/bin", "/x">>,
      <<>> }

PathValues ==
    { JoinWith(es, ":") :
        es \in UNION { [1..n -> PathEntries] : n \in 0..MaxPathEntries } }

InitEnv ==
    /\ WriterIdle
    /\ DiscoveryIdle
    /\ LoginIdle
    /\ CommandIdle
    /\ FormatIdle
    /\ envSet \in BOOLEAN
    /\ envPath \in PathValues
    /\ (~envSet => envPath = <<>>)
    /\ envInput = [set |-> envSet, path |-> envPath]
    /\ envBefore = [set |-> envSet, path |-> envPath]
    /\ envCount = 0

\* buildEnvWithPaths is applied to the environment
BuildEnvWithPaths ==
    /\ envCount < MaxBuilds
    /\ LET env == BuildEnv([set |-> envSet, path |-> envPath])
       IN  /\ envSet' = env.set
           /\ envPath' = env.path
    /\ envBefore' = [set |-> envSet, path |-> envPath]
    /\ envCount' = envCount + 1
    /\ UNCHANGED envInput
    /\ UNCHANGED <<writerVars, discVars, loginVars, cmdVars, fmtVars>>

NextEnv == BuildEnvWithPaths

SpecEnv == InitEnv /\ [][NextEnv]_vars

----------------------------------------------------------------------------
(* formatExpirationTime, src/extension.js 457-464                          *)

\* the greatest whole-minute distance of the model, either side of now
MaxMinutes == 125

MsPerHour == 1000 * 60 * 60

MsPerMinute == 1000 * 60

\* Math.floor(a / b) for integers a and b > 0
FloorDiv(a, b) == a \div b

\* the % of the language: the result has the sign of the dividend
Rem(a, b) == IF a >= 0 THEN a % b ELSE 0 - ((0 - a) % b)

\* `${n}` of an integer: its decimal numeral, one atom
Numeral(n) == ToString(n)

\* formatExpirationTime after `date.getTime() - now.getTime()`
FormatExpirationTime(diffMs) ==
    LET diffHrs == FloorDiv(diffMs, MsPerHour)
        diffMins == FloorDiv(Rem(diffMs, MsPerHour), MsPerMinute)
    IN  <<Numeral(diffHrs), "h", SP, Numeral(diffMins), "m">>

\* the distances: whole minutes, and a millisecond or all but one
\* millisecond past them
Diffs ==
    { m * MsPerMinute + r : m \in (0 - MaxMinutes)..MaxMinutes,
                            r \in { 0, 1, MsPerMinute - 1 } }

InitFormat ==
    /\ WriterIdle
    /\ DiscoveryIdle
    /\ LoginIdle
    /\ EnvIdle
    /\ CommandIdle
    /\ fmtDiff \in Diffs
    /\ fmtOut = <<>>

\* formatExpirationTime(date) is called, now being fmtDiff before date
FormatCall ==
    /\ fmtOut = <<>>
    /\ fmtOut' = FormatExpirationTime(fmtDiff)
    /\ UNCHANGED fmtDiff
    /\ UNCHANGED <<writerVars, discVars, loginVars, envVars, cmdVars>>

NextFormat == FormatCall

SpecFormat == InitFormat /\ [][NextFormat]_vars

----------------------------------------------------------------------------
(* The login command of src/extension.js, lines 508-537, from the profile  *)
(* selected in the quick pick to the return of the command                 *)

\* a step of the command, as the trace keeps it
Step(step, result, value) == [step |-> step, result |-> result, value |-> value]

\* `AWS SSO login successful for profile: <name>. Credentials will expire
\* in <expirationTime>.`
SuccessWithExpiry(name, expirationTime) ==
    [kind |-> "loginSuccessful", text |-> name \o <<".">> \o expirationTime]

\* `Error starting SSO login: <message>`
StartError(message) == [kind |-> "startError", text |-> message]

\* `if (!isTokenValid)`: the login is started
StartsLogin(isTokenValid) == ~isTokenValid

\* a command that goes on to the exchange after a failed login
GoesOnAfterFailedLogin(loginSuccess) == TRUE

\* `if (!loginSuccess) return`: the command goes on
GoesOnAfterLogin(loginSuccess) == loginSuccess

\* the catch of the progress task of startSsoLogin (extension.js 304-318)
ExecFailureNote(message) ==
    IF \/ Includes(message, <<"command", SP, "not", SP, "found">>)
       \/ Includes(message, <<"not", SP, "recognized">>)
    THEN InstallHint
    ELSE LoginFailed(message)

\* what may happen in startSsoLogin: no tool is found, the tool runs and
\* succeeds, the tool fails with a message, the progress task is rejected
ExecOutcomes ==
    { [kind |-> "noCli", message |-> <<>>],
      [kind |-> "ok", message |-> <<>>],
      [kind |-> "execFails", message |-> <<"Command", SP, "failed">>],
      [kind |-> "execFails",
       message |-> <<"sh", ":", SP, "command", SP, "not", SP, "found">>],
      [kind |-> "rejected", message |-> <<"Canceled">>] }

\* startSsoLogin of src/extension.js as one step: its result and what it
\* showed
ExecStartSsoLogin(outcome) ==
    IF outcome.kind = "noCli"
    THEN [result |-> FALSE, notes |-> <<InstallHint>>]
    ELSE IF outcome.kind = "ok"
    THEN [result |-> TRUE, notes |-> <<>>]
    ELSE IF outcome.kind = "execFails"
    THEN [result |-> FALSE, notes |-> <<ExecFailureNote(outcome.message)>>]
    ELSE [result |-> FALSE, notes |-> <<StartError(outcome.message)>>]

\* the file system during one updateAwsCredentialsFile: healthy, or the
\* named operation throws when it is called
IoFaults == { "none", "mkdir", "read", "write" }

IoError(op) == <<"EACCES", ":", SP, op>>

\* the try block of updateAwsCredentialsFile (extension.js 364-445)
UpdateTry(fault, dirExists, exists, content, profileName, credentials) ==
    IF ~dirExists /\ fault = "mkdir"
    THEN [threw |-> TRUE, failed |-> "mkdir", message |-> IoError("mkdir"),
          dirExists |-> dirExists, exists |-> exists, content |-> content]
    ELSE IF exists /\ fault = "read"
    THEN [threw |-> TRUE, failed |-> "read", message |-> IoError("read"),
          dirExists |-> TRUE, exists |-> exists, content |-> content]
    ELSE IF fault = "write"
    THEN [threw |-> TRUE, failed |-> "write", message |-> IoError("write"),
          dirExists |-> TRUE, exists |-> exists, content |-> content]
    ELSE [threw |-> FALSE, failed |-> "none", message |-> <<>>,
          dirExists |-> TRUE, exists |-> TRUE,
          content |-> UpdatedContent(IF exists THEN content ELSE <<>>,
                                     profileName, credentials)]

\* an updateAwsCredentialsFile whose catch block logs the error and returns
UpdateSwallows(outcome) == [outcome EXCEPT !.threw = FALSE]

\* the catch block of updateAwsCredentialsFile (446-449): `throw error`
UpdateCatch(outcome) == outcome

\* the distances to the expiration of the credentials
ExpiryDiffs == { 90 * MsPerMinute, 0 - 1 }

\* what getAwsCredentials may do: return credentials or throw
ExchangeOutcomes ==
    { [threw |-> FALSE, message |-> <<>>, credentials |-> c, expiration |-> d] :
          c \in { CredFull, CredEmpty }, d \in ExpiryDiffs }
    \cup { [threw |-> TRUE, message |-> <<"UnauthorizedException">>,
            credentials |-> NoCreds, expiration |-> 0] }

InitCommand ==
    /\ DiscoveryIdle
    /\ EnvIdle
    /\ FormatIdle
    /\ credExists \in BOOLEAN
    /\ credContent \in InitialContents
    /\ (~credExists => credContent = <<>>)
    /\ awsDirExists \in BOOLEAN
    /\ (credExists => awsDirExists)
    /\ wCount = 0
    /\ wSame = 0
    /\ wProfile \in { call[1] : call \in WriterCalls }
    /\ wCreds = NoCreds
    /\ wBeforeExists = credExists
    /\ wBefore = credContent
    /\ wWritten = EmptyObject
    /\ LoginIdle
    /\ cmdPc = "token"
    /\ cmdTrace = <<>>
    /\ cmdShown = <<>>

\* `const isTokenValid = await isSsoTokenValid(profile)`: it returns true
\* or false and never throws
TokenCheck ==
    /\ cmdPc = "token"
    /\ \E isTokenValid \in BOOLEAN :
          /\ cmdTrace' = Append(cmdTrace, Step("token", isTokenValid, <<>>))
          /\ cmdPc' = IF StartsLogin(isTokenValid) THEN "login" ELSE "exchange"
    /\ UNCHANGED <<cmdShown, awsDirExists>>
    /\ UNCHANGED <<writerVars, discVars, loginVars, envVars, fmtVars>>

\* `const loginSuccess = await startSsoLogin(profile)` and the test of it
ExecLogin ==
    /\ cmdPc = "login"
    /\ \E outcome \in ExecOutcomes :
          LET r == ExecStartSsoLogin(outcome)
          IN  /\ cmdTrace' = Append(cmdTrace, Step("login", r.result, <<>>))
              /\ cmdShown' = cmdShown \o r.notes
              /\ cmdPc' = IF GoesOnAfterLogin(r.result) THEN "exchange"
                          ELSE "done"
    /\ UNCHANGED awsDirExists
    /\ UNCHANGED <<writerVars, discVars, loginVars, envVars, fmtVars>>

\* `const credentials = await getAwsCredentials(profile)`; what it throws
\* is caught at the end of the command
Exchange ==
    /\ cmdPc = "exchange"
    /\ \E outcome \in ExchangeOutcomes :
          /\ cmdTrace' = Append(cmdTrace,
                                Step("exchange", ~outcome.threw, outcome))
          /\ IF outcome.threw
             THEN /\ cmdShown' = Append(cmdShown, LoginFailed(outcome.message))
                  /\ cmdPc' = "done"
             ELSE /\ cmdPc' = "write"
                  /\ UNCHANGED cmdShown
    /\ UNCHANGED awsDirExists
    /\ UNCHANGED <<writerVars, discVars, loginVars, envVars, fmtVars>>

\* `await updateAwsCredentialsFile(profile.name, credentials)`, then the
\* success message with the expiration time; what the update throws is
\* caught at the end of the command
UpdateAndReport ==
    /\ cmdPc = "write"
    /\ \E fault \in IoFaults :
          LET got == cmdTrace[Len(cmdTrace)].value
              r == UpdateCatch(UpdateTry(fault, awsDirExists, credExists,
                                         credContent, wProfile, got.credentials))
          IN  /\ awsDirExists' = r.dirExists
              /\ credExists' = r.exists
              /\ credContent' = r.content
              /\ wBeforeExists' = credExists
              /\ wBefore' = credContent
              /\ wCreds' = got.credentials
              /\ wCount' = wCount + 1
              /\ wWritten' = IF r.threw THEN wWritten
                             ELSE Put(wWritten, wProfile, got.credentials)
              /\ IF r.threw
                 THEN /\ cmdTrace' = Append(cmdTrace,
                                            Step("write", r.failed, r.message))
                      /\ cmdShown' = Append(cmdShown, LoginFailed(r.message))
                 ELSE /\ cmdTrace' = cmdTrace \o
                           << Step("write", r.failed, r.message),
                              Step("success", TRUE, <<>>) >>
                      /\ cmdShown' = Append(cmdShown,
                             SuccessWithExpiry(wProfile,
                                 FormatExpirationTime(got.expiration)))
    /\ cmdPc' = "done"
    /\ UNCHANGED <<wSame, wProfile>>
    /\ UNCHANGED <<discVars, loginVars, envVars, fmtVars>>

NextCommand == TokenCheck \/ ExecLogin \/ Exchange \/ UpdateAndReport

SpecCommand == InitCommand /\ [][NextCommand]_vars

----------------------------------------------------------------------------
(* Reading a credentials text, for the statements about the writer         *)

\* the line is a section header (after trimming, as every AWS tool reads it)
IsHeader(line) == GenericSectionMatch(Trim(line))

\* the line is a header naming `name`
IsHeaderOf(line, name) ==
    IsHeader(line) /\ GenericSectionName(Trim(line)) = name

\* the line reads as key=value with a non-empty value
IsKeyValue(line) == KvMatch(Trim(line))

IsBlank(line) == Trim(line) = <<>>

HeaderPositions(ls) == { i \in 1..Len(ls) : IsHeader(ls[i]) }

HeadersOf(ls, name) == { i \in 1..Len(ls) : IsHeaderOf(ls[i], name) }

\* the last line of the section whose header is line i
SectionEnd(ls, i) ==
    IF \E j \in HeaderPositions(ls) : j > i
    THEN (CHOOSE j \in HeaderPositions(ls) :
              j > i /\ \A k \in HeaderPositions(ls) : k > i => j <= k) - 1
    ELSE Len(ls)

\* The text cut at its header lines: the first piece is what stands before
\* the first header (it may be empty), every further piece is a header line
\* and the lines under it.
RECURSIVE GroupSections(_, _)
GroupSections(ls, acc) ==
    IF ls = <<>> THEN acc
    ELSE IF IsHeader(Head(ls))
         THEN GroupSections(Tail(ls), Append(acc, <<Head(ls)>>))
         ELSE GroupSections(Tail(ls),
                            [acc EXCEPT ![Len(acc)] = Append(@, Head(ls))])

SectionsOf(ls) == GroupSections(ls, << <<>> >>)

\* the three key lines a section of credentials c must hold, spelled out
ExpectedKeyLines(c) ==
    << <<"aws_access_key_id", SP, "=", SP>> \o c.accessKeyId,
       <<"aws_secret_access_key", SP, "=", SP>> \o c.secretAccessKey,
       <<"aws_session_token", SP, "=", SP>> \o c.sessionToken >>

ExpectedSection(name, c) == << <<"[">> \o name \o <<"]">> >> \o ExpectedKeyLines(c)

NotKeyValue(line) == ~IsKeyValue(line)

\* a call has been made on an existing file that holds a section of the name
WroteExistingSection ==
    /\ wCount >= 1
    /\ wBeforeExists
    /\ HeadersOf(Split(wBefore), wProfile) # {}

\* a call has been made on a non-empty file without a section of the name
WroteMissingSection ==
    /\ wCount >= 1
    /\ wBeforeExists
    /\ wBefore # <<>>
    /\ HeadersOf(Split(wBefore), wProfile) = {}

\* a call has been made on an absent or empty file
WroteEmptyFile == wCount >= 1 /\ (~wBeforeExists \/ wBefore = <<>>)

----------------------------------------------------------------------------
(* Claims about the writer                                                 *)

\* C1 (as stated): writing p into a file that holds [p] leaves every other
\* section and the preamble byte-identical and in place, and the only lines
\* that differ from the input are the three key lines under a [p] header.
C1_OnlyKeyLinesDiffer ==
    WroteExistingSection =>
        LET in  == Split(wBefore)
            out == Split(credContent)
        IN  /\ Len(out) = Len(in)
            /\ \A i \in 1..Len(in) :
                  out[i] # in[i] =>
                      \E h \in HeadersOf(in, wProfile) : i \in (h + 1)..(h + 3)

\* C1 (amended): the preamble and every section not named p are
\* byte-identical and keep their place; each section named p keeps its place
\* and becomes the header `[p]`, the three key lines, then the section's lines
\* that do not read as key=value, unchanged and in order.
C1_FrameOfWrite ==
    WroteExistingSection =>
        LET si == SectionsOf(Split(wBefore))
            so == SectionsOf(Split(credContent))
        IN  /\ Len(so) = Len(si)
            /\ so[1] = si[1]
            /\ \A k \in 2..Len(si) :
                  IF IsHeaderOf(si[k][1], wProfile)
                  THEN so[k] = ExpectedSection(wProfile, wCreds)
                                  \o SelectSeq(Tail(si[k]), NotKeyValue)
                  ELSE so[k] = si[k]

\* C1 witness: p was written into a file with another section before [p],
\* another after it, a key=value line and a comment line under [p].
C1_Witness ==
    /\ WroteExistingSection
    /\ LET in == Split(wBefore)
       IN  \E h \in HeadersOf(in, wProfile) :
              /\ \E a \in HeaderPositions(in) : a < h /\ ~IsHeaderOf(in[a], wProfile)
              /\ \E b \in HeaderPositions(in) : b > h /\ ~IsHeaderOf(in[b], wProfile)
              /\ \E i \in (h + 1)..SectionEnd(in, h) : IsKeyValue(in[i])
              /\ \E i \in (h + 1)..SectionEnd(in, h) :
                    ~IsKeyValue(in[i]) /\ ~IsBlank(in[i])
    /\ credContent # wBefore

\* C2 (as stated): after a call for p the file holds exactly one header
\* line naming p.
C2_OneHeaderPerName ==
    wCount >= 1 => Cardinality(HeadersOf(Split(credContent), wProfile)) = 1

\* C3 (as stated): once the same call has been made twice in a row, a third
\* such call leaves the file as the second one left it.
C3_ThirdWriteIsFixedPoint ==
    wSame >= 3 => credContent = wBefore

\* the lines of a text, the empty piece after a closing line break left out
ContentLines(text) ==
    IF text # <<>> /\ text[Len(text)] = NL
    THEN SubSeq(Split(text), 1, Len(Split(text)) - 1)
    ELSE Split(text)

C5_FreshFileIsOneSection ==
    WroteEmptyFile =>
        credContent = Join(ExpectedSection(wProfile, wCreds))

----------------------------------------------------------------------------
(* Reading a config text, for the statements about the parser.  A section  *)
(* is what the data model calls one: of the occurrences of a header, the   *)
(* last one and the lines under it; of the lines setting a key, the last.  *)

\* the line is neither blank nor a comment
Significant(line) == Trim(line) # <<>> /\ Trim(line)[1] # "#"

\* the line opens a section
IsConfigHeader(line) == Significant(line) /\ GenericSectionMatch(Trim(line))

IsProfileHeader(line) == Significant(line) /\ ProfileMatch(Trim(line))

IsSessionHeader(line) == Significant(line) /\ SsoSessionMatch(Trim(line))

\* the positions of the `[profile name]` headers
ProfileHeaders(ls, name) ==
    { i \in 1..Len(ls) :
        IsProfileHeader(ls[i]) /\ WordSectionName(Trim(ls[i])) = name }

\* the positions of the `[sso-session name]` headers
SessionHeaders(ls, name) ==
    { i \in 1..Len(ls) :
        IsSessionHeader(ls[i]) /\ WordSectionName(Trim(ls[i])) = name }

\* the names that `[profile ...]` headers of the text give
ProfileNames(ls) ==
    { WordSectionName(Trim(ls[i])) : i \in { j \in 1..Len(ls) : IsProfileHeader(ls[j]) } }

Last(positions) == CHOOSE i \in positions : \A j \in positions : j <= i

\* the lines under the header at line i
BodyPositions(ls, i) ==
    { j \in (i + 1)..Len(ls) :
        \A k \in (i + 1)..j : ~IsConfigHeader(ls[k]) }

\* The line as a key=value line of the file format: the key is what stands
\* before the first "=", the value what stands after it, blanks around both
\* dropped; the key holds no blank and neither is empty.
HasEquals(t) == \E k \in 1..Len(t) : t[k] = "="

FirstEquals(t) == CHOOSE k \in 1..Len(t) : t[k] = "=" /\ \A j \in 1..(k - 1) : t[j] # "="

FormatKey(line) == Trim(SubSeq(Trim(line), 1, FirstEquals(Trim(line)) - 1))

FormatValue(line) ==
    Trim(SubSeq(Trim(line), FirstEquals(Trim(line)) + 1, Len(Trim(line))))

IsSetting(line) ==
    /\ Significant(line)
    /\ ~IsConfigHeader(line)
    /\ HasEquals(Trim(line))
    /\ FormatKey(line) # <<>>
    /\ \A k \in 1..Len(FormatKey(line)) : ~IsWs(FormatKey(line)[k])
    /\ FormatValue(line) # <<>>

\* the lines under the header at line i that set `key`
Setting(ls, i, key) ==
    { j \in BodyPositions(ls, i) : IsSetting(ls[j]) /\ FormatKey(ls[j]) = <<key>> }

\* the value of `key` in the section whose header is line i, <<>> if unset
ValueOf(ls, i, key) ==
    IF Setting(ls, i, key) = {} THEN <<>>
    ELSE FormatValue(ls[Last(Setting(ls, i, key))])

\* the keys set in the section whose header is line i
KeysOf(ls, i) ==
    { FormatKey(ls[j]) : j \in { k \in BodyPositions(ls, i) : IsSetting(ls[k]) } }

HasDirectKeys(ls, i) ==
    /\ ValueOf(ls, i, "sso_start_url") # <<>>
    /\ ValueOf(ls, i, "sso_region") # <<>>
    /\ ValueOf(ls, i, "sso_account_id") # <<>>
    /\ ValueOf(ls, i, "sso_role_name") # <<>>

HasSessionLink(ls, i) ==
    /\ ~HasDirectKeys(ls, i)
    /\ ValueOf(ls, i, "sso_session") # <<>>
    /\ ValueOf(ls, i, "sso_account_id") # <<>>
    /\ ValueOf(ls, i, "sso_role_name") # <<>>

\* the session section `name` exists and holds a start URL and a region
SessionComplete(ls, name) ==
    /\ SessionHeaders(ls, name) # {}
    /\ ValueOf(ls, Last(SessionHeaders(ls, name)), "sso_start_url") # <<>>
    /\ ValueOf(ls, Last(SessionHeaders(ls, name)), "sso_region") # <<>>

\* parseAwsConfig has returned for a file it could read
Parsed == discPc # "start" /\ cfgExists /\ cfgReadable

----------------------------------------------------------------------------
(* Claims about the parser and the merger                                  *)

\* C6 (as stated): a `[profile X]` section holding the four direct SSO keys
\* gives an entry keyed X whose fields are X and exactly the four values.
C6_DirectProfileResolved ==
    Parsed =>
        LET ls == Split(cfgContent)
        IN  \A n \in ProfileNames(ls) :
              LET i == Last(ProfileHeaders(ls, n))
              IN  HasDirectKeys(ls, i) =>
                    /\ Has(configProfiles, n)
                    /\ Get(configProfiles, n) =
                          [name |-> n,
                           startUrl |-> ValueOf(ls, i, "sso_start_url"),
                           region |-> ValueOf(ls, i, "sso_region"),
                           accountId |-> ValueOf(ls, i, "sso_account_id"),
                           roleName |-> ValueOf(ls, i, "sso_role_name")]

\* C7 (as stated): a profile section without the complete direct keys that names a
\* session S and holds account id and role name is in the result exactly when
\* the section `[sso-session S]` holds a start URL and a region; the entry
\* takes start URL and region from the session section, account id and role
\* name from the profile section.
C7_SessionLinkedProfile ==
    Parsed =>
        LET ls == Split(cfgContent)
        IN  \A n \in ProfileNames(ls) :
              LET i == Last(ProfileHeaders(ls, n))
                  s == ValueOf(ls, i, "sso_session")
              IN  HasSessionLink(ls, i) =>
                    /\ Has(configProfiles, n) <=> SessionComplete(ls, s)
                    /\ Has(configProfiles, n) =>
                          LET j == Last(SessionHeaders(ls, s))
                          IN  Get(configProfiles, n) =
                                [name |-> n,
                                 startUrl |-> ValueOf(ls, j, "sso_start_url"),
                                 region |-> ValueOf(ls, j, "sso_region"),
                                 accountId |-> ValueOf(ls, i, "sso_account_id"),
                                 roleName |-> ValueOf(ls, i, "sso_role_name")]

\* C8 (as stated): every entry of the result has five non-empty fields.
C8_FiveNonEmptyFields ==
    discPc # "start" =>
        \A k \in 1..Len(configProfiles) :
            LET e == configProfiles[k][2]
            IN  /\ e.name # <<>>
                /\ e.startUrl # <<>>
                /\ e.region # <<>>
                /\ e.accountId # <<>>
                /\ e.roleName # <<>>

\* C9: a profile section whose only keys are source_profile and role_arn is
\* never in the result.
C9_ChainedProfileExcluded ==
    Parsed =>
        LET ls == Split(cfgContent)
        IN  \A n \in ProfileNames(ls) :
              KeysOf(ls, Last(ProfileHeaders(ls, n))) =
                  { <<"source_profile">>, <<"role_arn">> }
              => ~Has(configProfiles, n)

\* C9 witness: a chained profile whose source_profile names a profile that
\* was resolved.
C9_Witness ==
    /\ Parsed
    /\ LET ls == Split(cfgContent)
       IN  \E n \in ProfileNames(ls) :
              LET i == Last(ProfileHeaders(ls, n))
              IN  /\ KeysOf(ls, i) = { <<"source_profile">>, <<"role_arn">> }
                  /\ Has(configProfiles, ValueOf(ls, i, "source_profile"))

SettingsNames == { settings[i].name : i \in 1..Len(settings) }

\* C10: getAwsSsoProfiles returns one entry per name of either source; for a
\* name the config gives, the config's entry; for a name only the settings
\* give, the settings' entry (the last one of that name); with one source
\* empty, the entries of the other.
C10_MergePrecedence ==
    discPc = "merged" =>
        /\ \A i, j \in 1..Len(profiles) :
              profiles[i].name = profiles[j].name => i = j
        /\ { profiles[i].name : i \in 1..Len(profiles) } =
              Keys(configProfiles) \cup SettingsNames
        /\ \A i \in 1..Len(profiles) :
              IF Has(configProfiles, profiles[i].name)
              THEN profiles[i] = Get(configProfiles, profiles[i].name)
              ELSE profiles[i] =
                     settings[Last({ k \in 1..Len(settings) :
                                       settings[k].name = profiles[i].name })]
        /\ settings = <<>> =>
              { profiles[i] : i \in 1..Len(profiles) } =
                 { configProfiles[i][2] : i \in 1..Len(configProfiles) }
        /\ configProfiles = EmptyObject /\ Cardinality(SettingsNames) = Len(settings) =>
              { profiles[i] : i \in 1..Len(profiles) } =
                 { settings[i] : i \in 1..Len(settings) }

\* C10 witness: a name given by both sources with different regions, a name
\* only the settings give and a name only the config gives.
C10_Witness ==
    /\ discPc = "merged"
    /\ \E i \in 1..Len(settings) :
          /\ Has(configProfiles, settings[i].name)
          /\ Get(configProfiles, settings[i].name).region # settings[i].region
    /\ \E i \in 1..Len(settings) : ~Has(configProfiles, settings[i].name)
    /\ \E n \in Keys(configProfiles) : n \notin SettingsNames

----------------------------------------------------------------------------
(* Claims about failures of the config read                                *)

\* the config gives nothing: the file is absent, empty, or cannot be read
NoConfig == ~cfgExists \/ cfgContent = <<>> \/ ~cfgReadable

\* C11: parseAwsConfig never throws to its caller; on an absent, empty or
\* unreadable config file it returns the empty mapping, and getAwsSsoProfiles
\* then returns the profiles of the settings alone.
C11_ParseNeverThrows ==
    /\ discPc # "thrown"
    /\ (discPc # "start" /\ NoConfig) => configProfiles = EmptyObject
    /\ (discPc = "merged" /\ NoConfig) =>
           profiles = Values(SettingsMap(settings, EmptyObject))

\* C11 witness: the read of an existing config file failed and the profiles
\* of a non-empty settings list were returned.
C11_Witness ==
    /\ discPc = "merged"
    /\ cfgExists
    /\ ~cfgReadable
    /\ cfgContent # <<>>
    /\ settings # <<>>
    /\ Len(profiles) >= 1

----------------------------------------------------------------------------
(* Reading the log of a login call                                         *)

\* the notifications shown so far, in order
Notes == Flatten([i \in 1..Len(log) |-> log[i].notes])

\* the verification codes surfaced so far, in order
Surfaced == Flatten([i \in 1..Len(log) |-> log[i].surfaced])

\* the runs of the three handlers that call resolve()
Settling == { i \in 1..Len(log) : log[i].ev \in { "close", "error", "cancel" } }

First(positions) == CHOOSE i \in positions : \A j \in positions : i <= j

\* the result an event stands for: a close with exit code 0 is a success,
\* every other close, an error and a cancellation are not
Determined(did) == IF did.ev = "close" /\ did.arg = "0" THEN "true" ELSE "false"

\* the error-stream text received before the run at position i
StreamBefore(i) ==
    Flatten([k \in 1..(i - 1) |-> IF log[k].ev = "data" THEN log[k].arg ELSE <<>>])

IsFailureNote(n) == n.kind \in { "installHint", "loginFailed", "invalidName" }

----------------------------------------------------------------------------
(* Claims about the login driver                                           *)

\* C12 (as stated): a call with an invalid profile name shows the
\* invalid-name error, returns false and spawns no process, neither a
\* version probe nor the login child.
C12_InvalidNameSpawnsNothing ==
    (lgPc = "returned" /\ ~IsValidProfileName(lgName)) =>
        /\ Notes = <<InvalidName(lgName)>>
        /\ lgResult = "false"
        /\ probed = <<>>
        /\ childSpawned = 0

\* C13 (as stated): when cancellation is requested while the child runs
\* (before its close and error events), the child is sent a termination
\* signal, the login resolves to false and no error or failure notification
\* is shown in that call, the close event of the killed child included.
C13_CancelIsSilent ==
    \A i \in 1..Len(log) :
        (log[i].ev = "cancel" /\ \A k \in Settling : i <= k) =>
            /\ log[i].signals = <<"SIGTERM">>
            /\ promise = "false"
            /\ lgPc = "returned" => lgResult = "false"
            /\ \A k \in 1..Len(Notes) : ~IsFailureNote(Notes[k])

\* C14: whatever the order of the close event, the error event and the
\* cancellation, the promise is settled by the first of them, with the
\* result that event stands for, and keeps it; startSsoLogin returns it.
C14_FirstEventWins ==
    /\ Settling = {} => promise = "pending"
    /\ Settling # {} => promise = Determined(log[First(Settling)])
    /\ (lgPc = "returned" /\ childSpawned = 1) =>
           /\ Settling # {}
           /\ lgResult = Determined(log[First(Settling)])

\* C14 witness: the child closed with exit code 0, the cancellation came
\* after it, and startSsoLogin returned true.
C14_Witness ==
    /\ lgPc = "returned"
    /\ lgResult = "true"
    /\ \E i, j \in Settling :
          /\ i < j
          /\ log[i].ev = "close"
          /\ log[j].ev = "cancel"

\* C15: in one call a verification code is surfaced at most once.
C15_CodeSurfacedOnce ==
    /\ Len(Surfaced) <= 1
    /\ Cardinality({ k \in 1..Len(Notes) : Notes[k].kind = "codeInfo" }) <= 1

\* C15 witness: a code was surfaced and a later chunk held a different code.
C15_Witness ==
    /\ Len(Surfaced) = 1
    /\ \E i, j \in 1..Len(log) :
          /\ i < j
          /\ log[i].ev = "data" /\ log[i].surfaced # <<>>
          /\ log[j].ev = "data" /\ CodeMatch(log[j].arg)
          /\ MatchedCode(log[j].arg) # Surfaced[1]

\* C16 (as stated): when the whole error-stream text (all chunks put
\* together, the stream being closed) holds a piece of the shape of a code
\* (four capitals or digits, a hyphen, four capitals or digits), a code was
\* surfaced and it is the first such piece of the stream.
C16_CodeOfTheStream ==
    (Runs("close") = 1 /\ CodeMatch(stderr)) =>
        /\ Surfaced # <<>>
        /\ Surfaced[1] = MatchedCode(stderr)

\* the least candidate that answers the probe
FirstInstalled == CHOOSE i \in installed : \A j \in installed : i <= j

\* C17: the candidates are probed in their order, the first that answers is
\* returned and none is probed after it; when none answers, null is
\* returned, the installation hint is shown, startSsoLogin returns false and
\* no login child is spawned.
C17_FirstCandidateWins ==
    /\ \A i \in 1..Len(probed) : probed[i] = i
    /\ lgPc = "probing" =>
           \A i \in 1..Len(probed) : i \notin installed
    /\ lgPc \notin { "idle", "probing" } =>
           IF installed = {}
           THEN /\ awsPath = 0
                /\ Len(probed) = Len(commonPaths)
                /\ childSpawned = 0
                /\ lgPc = "returned" =>
                       Notes = <<InstallHint>> /\ lgResult = "false"
           ELSE /\ awsPath = FirstInstalled
                /\ Len(probed) = FirstInstalled

\* C17 witness: the third candidate answered, the fifth would have, and the
\* login child was spawned with the third.
C17_Witness ==
    /\ lgPc = "running"
    /\ installed = {3, 5}
    /\ awsPath = 3
    /\ childSpawned = 1

\* C18: a close with exit code 0 shows nothing and, being the first event,
\* makes the login a success; a close with another code shows exactly one
\* notification, the installation hint when the error-stream text holds
\* "command not found" or "not recognized", else the login-failed message
\* with the tool's error text, and, being the first event, makes the login a
\* failure.
C18_CloseOutcome ==
    \A i \in 1..Len(log) :
        log[i].ev = "close" =>
            IF log[i].arg = "0"
            THEN /\ log[i].notes = <<>>
                 /\ First(Settling) = i => promise = "true"
            ELSE /\ Len(log[i].notes) = 1
                 /\ First(Settling) = i => promise = "false"
                 /\ IF \/ Includes(StreamBefore(i),
                                   <<"command", SP, "not", SP, "found">>)
                       \/ Includes(StreamBefore(i), <<"not", SP, "recognized">>)
                    THEN log[i].notes[1] = InstallHint
                    ELSE /\ log[i].notes[1].kind = "loginFailed"
                         /\ Trim(StreamBefore(i)) # <<>> =>
                                log[i].notes[1].text = Trim(StreamBefore(i))

\* C18 witness: a close with exit code 0 after error-stream text naming a
\* missing command, and the login a success.
C18_Witness ==
    /\ lgResult = "true"
    /\ \E i \in 1..Len(log) :
          /\ log[i].ev = "close"
          /\ log[i].arg = "0"
          /\ Includes(StreamBefore(i), <<"command", SP, "not", SP, "found">>)

\* C21: one invocation of the login command spawns at most one `sso login`
\* child and enters startSsoLogin's launch step at most once; once the
\* login failed, was cancelled or hit an error, the command finishes and
\* nothing is attempted again.
C21_AtMostOneLoginChild ==
    /\ childSpawned <= 1
    /\ Runs("start") <= 1
    /\ Len(cmdTrace) <= 1
    /\ Len(cmdTrace) = 1 => lgPc = "done"

\* C21 witness: the child was spawned, an error event made the login fail,
\* and the command finished with that one child.
C21_Witness ==
    /\ lgPc = "done"
    /\ lgResult = "false"
    /\ childSpawned = 1
    /\ Runs("error") = 1

\* the terminal notifications shown so far: installation hints and
\* login-failed messages
TerminalNotes ==
    { k \in 1..Len(Notes) : Notes[k].kind \in { "installHint", "loginFailed" } }

\* C29 (as stated): whatever child events one login invocation sees (an
\* error then a close, a cancellation then a close, a close alone), at most
\* one terminal notification (installation hint or login-failed message) is
\* shown.
C29_OneTerminalNotification == Cardinality(TerminalNotes) <= 1

----------------------------------------------------------------------------
(* Claims about the environment                                            *)

\* path.split(":"), for reading the entries of a PATH
RECURSIVE SplitOn(_, _)
SplitOn(t, sep) ==
    IF \E i \in 1..Len(t) : t[i] = sep
    THEN LET i == CHOOSE k \in 1..Len(t) :
                     t[k] = sep /\ \A j \in 1..(k - 1) : t[j] # sep
         IN  <<SubSeq(t, 1, i - 1)>> \o SplitOn(SubSeq(t, i + 1, Len(t)), sep)
    ELSE <<t>>

\* the entries of a PATH; an unset or empty PATH has none
EntriesOf(env) ==
    IF ~env.set \/ env.path = <<>> THEN <<>> ELSE SplitOn(env.path, ":")

Occurrences(entries, e) == Cardinality({ i \in 1..Len(entries) : entries[i] = e })

EnvNow == [set |-> envSet, path |-> envPath]

\* C19 (as stated): in the environment buildEnvWithPaths returns, each of the
\* three directories is an entry of PATH and the entries of the input PATH
\* are all there, in their order.
C19_DirectoriesAreEntries ==
    envCount >= 1 =>
        LET in  == EntriesOf(envBefore)
            out == EntriesOf(EnvNow)
        IN  /\ \A k \in 1..Len(homebrewPaths) : Occurrences(out, homebrewPaths[k]) >= 1
            /\ Len(out) >= Len(in)
            /\ \E k \in 0..(Len(out) - Len(in)) :
                  SubSeq(out, k + 1, k + Len(in)) = in

\* C20: a directory that is an entry of the input PATH is not added again,
\* and buildEnvWithPaths applied to what it returned returns the same.
C20_NoDuplicateAndIdempotent ==
    /\ envCount >= 1 =>
          \A k \in 1..Len(homebrewPaths) :
              LET before == Occurrences(EntriesOf(envBefore), homebrewPaths[k])
                  now    == Occurrences(EntriesOf(EnvNow), homebrewPaths[k])
              IN  IF before >= 1 THEN now = before ELSE now <= 1
    /\ envCount >= 2 => EnvNow = envBefore

\* C20 witness: the PATH held /usr/local/bin and not /opt/homebrew/bin; the
\* first application changed it, the second did not.
C20_Witness ==
    /\ envCount = 2
    /\ Occurrences(EntriesOf(envInput), <<"/usr/local/bin">>) = 1
    /\ Occurrences(EntriesOf(envInput), <<"/opt/homebrew/bin">>) = 0
    /\ envBefore # envInput
    /\ Occurrences(EntriesOf(envBefore), <<"/usr/local/bin">>) = 1
    /\ EnvNow = envBefore

----------------------------------------------------------------------------
(* Claims about sequences of writes                                        *)

\* the key=value lines of a piece of the text, in order
RECURSIVE KeyValueLines(_)
KeyValueLines(ls) ==
    IF ls = <<>> THEN <<>>
    ELSE IF IsKeyValue(Head(ls)) THEN <<Head(ls)>> \o KeyValueLines(Tail(ls))
    ELSE KeyValueLines(Tail(ls))

\* C28: starting from an empty (or absent) credentials file, after any
\* sequence of writes with non-empty credential values the file holds
\* exactly one section per written name, in the order of each name's first
\* write, and the three key lines of each section, standing right under its
\* header, are those of the last write of that name; no other key line
\* stands in the file.
C28_OneSectionPerName ==
    LET secs == SectionsOf(Split(credContent))
    IN  /\ Len(secs) = Len(wWritten) + 1
        /\ KeyValueLines(secs[1]) = <<>>
        /\ \A k \in 1..Len(wWritten) :
              LET sec == secs[k + 1]
              IN  /\ Len(sec) >= 4
                  /\ SubSeq(sec, 1, 4) =
                         ExpectedSection(wWritten[k][1], wWritten[k][2])
                  /\ KeyValueLines(sec) = ExpectedKeyLines(wWritten[k][2])

\* C28 witness: p, then q, then p again with other credentials: two
\* sections, p first, holding the credentials of the third write.
C28_Witness ==
    /\ wCount = 3
    /\ Len(wWritten) = 2
    /\ wWritten[1][1] = <<"p">>
    /\ wWritten[2][1] = <<"q">>
    /\ wProfile = <<"p">>
    /\ wCreds = CredOther
    /\ wBefore # credContent
    /\ HeadersOf(Split(wBefore), <<"p">>) # {}

----------------------------------------------------------------------------
(* Claims about the sections of the config file                            *)

\* the key of `sections` that the header line stands for
HeaderKey(line) ==
    IF IsProfileHeader(line)
    THEN SectionKey("profile", WordSectionName(Trim(line)))
    ELSE IF IsSessionHeader(line)
    THEN SectionKey("sso-session", WordSectionName(Trim(line)))
    ELSE SectionKey("other", GenericSectionName(Trim(line)))

\* the header lines that are the last occurrence of their section
LastHeaders(ls) ==
    { i \in 1..Len(ls) :
        /\ IsConfigHeader(ls[i])
        /\ \A j \in (i + 1)..Len(ls) :
              IsConfigHeader(ls[j]) => HeaderKey(ls[j]) # HeaderKey(ls[i]) }

\* the setting lines under the header at line i that no later line of the
\* section overrides
EffectiveSettings(ls, i) ==
    { j \in BodyPositions(ls, i) :
        /\ IsSetting(ls[j])
        /\ \A k \in BodyPositions(ls, i) :
              (k > j /\ IsSetting(ls[k])) => FormatKey(ls[k]) # FormatKey(ls[j]) }

\* C25 (as stated): inside a section every `key = value` line sets exactly
\* that key (the text before the first "=") to exactly that value (the text
\* after it), with or without blanks around the "=" and whether or not the
\* value holds further "=" characters.
C25_KeyValueLines ==
    Parsed =>
        LET ls == Split(cfgContent)
        IN  \A i \in LastHeaders(ls) :
              LET config == Get(cfgSections, HeaderKey(ls[i]))
              IN  /\ Has(cfgSections, HeaderKey(ls[i]))
                  /\ \A j \in EffectiveSettings(ls, i) :
                        /\ Has(config, FormatKey(ls[j]))
                        /\ Get(config, FormatKey(ls[j])) = FormatValue(ls[j])

\* C26 (as stated): only `[profile <name>]` sections yield a resolved
\* profile: every entry of the result carries the name of a
\* `[profile <name>]` header of the text, and `[default]`,
\* `[sso-session S]` or a bracketed name that merely begins with the word
\* profile never produce one.
C26_OnlyProfileSections ==
    Parsed =>
        LET ls == Split(cfgContent)
        IN  \A k \in 1..Len(configProfiles) :
              /\ configProfiles[k][1] \in ProfileNames(ls)
              /\ configProfiles[k][2].name = configProfiles[k][1]

\* the line, trimmed, begins with `key` and ends with `value`
HoldsPair(line, key, value) ==
    LET t == Trim(line)
    IN  /\ Len(t) >= Len(key) + Len(value)
        /\ SubSeq(t, 1, Len(key)) = key
        /\ SubSeq(t, Len(t) - Len(value) + 1, Len(t)) = value

\* the words a profile section is resolved by
SsoKeys ==
    { "sso_start_url", "sso_region", "sso_account_id", "sso_role_name",
      "sso_session" }

\* no line under the header at line i begins with one of the SSO keys
LacksSsoKeys(ls, i) ==
    \A j \in BodyPositions(ls, i) :
        Trim(ls[j]) = <<>> \/ Trim(ls[j])[1] \notin SsoKeys

\* C27: when a header with the same qualifier and name occurs more than
\* once, the last occurrence replaces the whole section: the section holds
\* nothing but what the lines under its last header set, and a profile whose
\* SSO keys stand under an earlier `[profile X]` while the last one has none
\* is not resolved.
C27_LastOccurrenceReplaces ==
    Parsed =>
        LET ls == Split(cfgContent)
        IN  /\ \A i \in LastHeaders(ls) :
                  LET config == Get(cfgSections, HeaderKey(ls[i]))
                  IN  /\ Has(cfgSections, HeaderKey(ls[i]))
                      /\ \A k \in 1..Len(config) :
                            \E j \in BodyPositions(ls, i) :
                                HoldsPair(ls[j], config[k][1], config[k][2])
            /\ \A n \in ProfileNames(ls) :
                  LacksSsoKeys(ls, Last(ProfileHeaders(ls, n)))
                  => ~Has(configProfiles, n)

\* C27 witness: `[profile X]` stands twice, the four direct keys under the
\* first and no SSO key under the second, and X is not resolved.
C27_Witness ==
    /\ Parsed
    /\ LET ls == Split(cfgContent)
       IN  \E n \in ProfileNames(ls) :
              \E i \in ProfileHeaders(ls, n) :
                  /\ i < Last(ProfileHeaders(ls, n))
                  /\ HasDirectKeys(ls, i)
                  /\ LacksSsoKeys(ls, Last(ProfileHeaders(ls, n)))
                  /\ ~Has(configProfiles, n)

\* the text cut at its headers: the lines above the first header, then one
\* piece per header with the lines under it
RECURSIVE ConfigPieces(_, _)
ConfigPieces(ls, acc) ==
    IF ls = <<>> THEN acc
    ELSE IF IsConfigHeader(Head(ls))
    THEN ConfigPieces(Tail(ls), Append(acc, <<Head(ls)>>))
    ELSE ConfigPieces(Tail(ls),
                      [acc EXCEPT ![Len(acc)] = Append(@, Head(ls))])

\* piece a taken out and put back as piece p, the others keeping their order
MovePiece(ps, a, p) ==
    LET rest == SubSeq(ps, 1, a - 1) \o SubSeq(ps, a + 1, Len(ps))
    IN  SubSeq(rest, 1, p - 1) \o <<ps[a]>> \o SubSeq(rest, p, Len(rest))

\* C30: the resolution of session-linked profiles does not depend on the
\* order of the sections: with `[sso-session S]` (standing once in the text)
\* moved to any other place among the sections, before or after the
\* `[profile X]` that names it, parseAwsConfig returns the same entries.
C30_SessionOrderIrrelevant ==
    Parsed =>
        LET ps == ConfigPieces(Split(cfgContent), << <<>> >>)
        IN  \A a \in 2..Len(ps) :
              (/\ IsSessionHeader(ps[a][1])
               /\ \A b \in 2..Len(ps) :
                     b # a => HeaderKey(ps[b][1]) # HeaderKey(ps[a][1]))
              => \A p \in 2..Len(ps) :
                    ParseConfig(TRUE, Join(Flatten(MovePiece(ps, a, p))))
                        = configProfiles

\* C30 witness: a profile that names the session S stands above the one
\* `[sso-session S]` section and is resolved with the session's start URL
\* and region.
C30_Witness ==
    /\ Parsed
    /\ LET ls == Split(cfgContent)
       IN  /\ Cardinality(SessionHeaders(ls, S)) = 1
           /\ \E n \in ProfileNames(ls) :
                 LET i == Last(ProfileHeaders(ls, n))
                 IN  /\ i < Last(SessionHeaders(ls, S))
                     /\ HasSessionLink(ls, i)
                     /\ Has(configProfiles, n)
                     /\ Get(configProfiles, n).startUrl = <<"u2">>
                     /\ Get(configProfiles, n).region = <<"r2">>

----------------------------------------------------------------------------
(* Claims about formatExpirationTime                                       *)

\* C24 (as stated): for every distance d of the range, negative ones
\* included, the result is `<H>h <M>m` with H the distance floored to whole
\* hours, M the rest floored to whole minutes, 0 <= M <= 59 and
\* 60 * H + M the distance floored to whole minutes.
C24_HoursAndMinutes ==
    fmtOut # <<>> =>
        \E H \in (0 - MaxMinutes - 1)..MaxMinutes, M \in 0..59 :
            /\ fmtOut = <<ToString(H), "h", SP, ToString(M), "m">>
            /\ H = fmtDiff \div MsPerHour
            /\ 60 * H + M = fmtDiff \div MsPerMinute

----------------------------------------------------------------------------
(* Claims about the login command of src/extension.js                      *)

\* the positions of the trace where the command took the given step
StepsOf(step) == { i \in 1..Len(cmdTrace) : cmdTrace[i].step = step }

\* the success message was shown
SuccessShown ==
    \E k \in 1..Len(cmdShown) : cmdShown[k].kind = "loginSuccessful"

\* C22: the steps of the command are strictly ordered: the login is started
\* only when the token check reported no valid token; the exchange is made
\* only after a valid token or a successful login; the file is written only
\* after the exchange returned credentials; the success message comes only
\* after the write; after a failed login there is no exchange, no write and
\* no success message.
C22_StepsInOrder ==
    /\ \A i \in StepsOf("token") : i = 1
    /\ \A i \in StepsOf("login") :
          i = 2 /\ cmdTrace[1].step = "token" /\ cmdTrace[1].result = FALSE
    /\ \A i \in StepsOf("exchange") :
          /\ i > 1
          /\ \/ cmdTrace[i - 1].step = "token" /\ cmdTrace[i - 1].result = TRUE
             \/ cmdTrace[i - 1].step = "login" /\ cmdTrace[i - 1].result = TRUE
    /\ \A i \in StepsOf("write") :
          /\ i > 1
          /\ cmdTrace[i - 1].step = "exchange"
          /\ cmdTrace[i - 1].result = TRUE
    /\ \A i \in StepsOf("success") :
          /\ i > 1
          /\ cmdTrace[i - 1].step = "write"
          /\ cmdTrace[i - 1].result = "none"
    /\ SuccessShown <=> StepsOf("success") # {}
    /\ (\E i \in StepsOf("login") : cmdTrace[i].result = FALSE) =>
          /\ StepsOf("exchange") = {}
          /\ StepsOf("write") = {}
          /\ ~SuccessShown
          /\ cmdPc = "done"
          /\ credContent = wBefore

\* C22 witness: no valid token, a successful login, the exchange, the write
\* and the success message, in that order.
C22_Witness ==
    /\ cmdPc = "done"
    /\ Len(cmdTrace) = 5
    /\ cmdTrace[1].step = "token" /\ cmdTrace[1].result = FALSE
    /\ cmdTrace[2].step = "login" /\ cmdTrace[2].result = TRUE
    /\ cmdTrace[3].step = "exchange"
    /\ cmdTrace[4].step = "write"
    /\ cmdTrace[5].step = "success"
    /\ SuccessShown

\* C23: when creating the directory, reading the file or writing the file
\* fails, updateAwsCredentialsFile throws that error to the command, the
\* command shows the failure with the error's message and never the success
\* message.
C23_WriteFailurePropagates ==
    \A i \in StepsOf("write") :
        /\ cmdPc = "done"
        /\ cmdTrace[i].result # "none" =>
              /\ i = Len(cmdTrace)
              /\ cmdShown # <<>>
              /\ cmdShown[Len(cmdShown)] = LoginFailed(IoError(cmdTrace[i].result))
              /\ ~SuccessShown
              /\ credExists = wBeforeExists
              /\ credContent = wBefore
        /\ cmdTrace[i].result = "none" => SuccessShown

\* C23 witness: the file existed, was read, and writing it failed.
C23_Witness ==
    /\ cmdPc = "done"
    /\ wBeforeExists
    /\ \E i \in StepsOf("write") : cmdTrace[i].result = "write"
    /\ \E k \in 1..Len(cmdShown) : cmdShown[k] = LoginFailed(IoError("write"))

====
